---- MODULE Spec2Model ----
(***************************************************************************)
(* cargo-release: the release orchestration engine of src/main.rs.         *)
(*                                                                         *)
(*   SpecSort  sort_workspace over bounded workspace dependency graphs     *)
(*   SpecLoad  TargetVersion::bump and the version part of                 *)
(*             PackageRelease::load over bounded versions and requests     *)
(*   SpecDeps  update_dependent_versions on one plan                       *)
(*   SpecWait  one iteration of STEP 3: cargo publish, the poll loop of    *)
(*             cargo::wait_for_publish and the grace sleep                 *)
(*   Spec      release_workspace followed by release_packages, the phased  *)
(*             pipeline, over a small workspace                            *)
(*   SpecObserve  the same pipeline over every repository STEP 0 can find  *)
(*   LiveWait  SpecWait with every step eventually taken                   *)
(*   SpecManifest  cargo::set_dependency_version over bounded manifests    *)
(*   SpecVerbosity  Verbosity::log_level over bounded flag counts          *)
(***************************************************************************)
EXTENDS Integers, Sequences, FiniteSets, TLC

VARIABLES
    mode,               \* which entry point this behaviour exercises
    workspace_members,  \* ws_meta.workspace_members: Seq of package ids
    resolve,            \* ws_meta.resolve.nodes: package id -> Seq of dependency ids
    sorted,             \* result of sort_workspace (None before the call)
    current,            \* pkg_meta of the package handed to load: [version, publish]
    level_or_version,   \* args.level_or_version: the TargetVersion
    load_config,        \* the config::Config resolved for the package
    loaded,             \* result of load (None before the call)
    args,               \* ReleaseOpt: [dry_run, no_confirm]
    ws_config,          \* the workspace's config::Config
    ws,                 \* cargo metadata and selection: [packages, metas, configs, selected]
    pkgs,               \* the plans handed to release_packages, in processing order
    pc,                 \* position in release_workspace / release_packages
    tree_dirty,         \* the `dirty` local of release_packages
    status,             \* the exit status (None while running)
    log,                \* the collaborator calls made or announced so far
    disk,               \* the manifests on disk: id -> [version, dependencies]
    observed,           \* what STEP 0 found in the repository (None before it)
    timeout,            \* the `timeout` handed to cargo::wait_for_publish
    elapsed,            \* `now.elapsed()` of cargo::wait_for_publish
    polls,              \* the polls of the registry index: Seq of [at, published]
    manifest,           \* a Cargo.toml: Seq of tables [key, entries]
    dep_name,           \* the `name` handed to cargo::set_dependency_version
    dep_version,        \* the `version` handed to cargo::set_dependency_version
    written,            \* the manifest written back (None before the call)
    logging,            \* the Verbosity flags: [quiet, verbose]
    log_level           \* result of Verbosity::log_level (None before the call)

sortVars == <<workspace_members, resolve, sorted>>
loadVars == <<current, level_or_version, load_config, loaded>>
inputVars == <<args, ws_config, ws>>
runVars == <<pkgs, pc, tree_dirty, status, log, disk, observed>>
waitVars == <<timeout, elapsed, polls>>
manifestVars == <<manifest, dep_name, dep_version, written>>
verbosityVars == <<logging, log_level>>
vars == <<mode, sortVars, loadVars, inputVars, runVars, waitVars, manifestVars,
          verbosityVars>>

None == <<>>

Some(x) == <<x>>

Get(o) == o[1]

(***************************************************************************)
(* Bounds of the model.                                                    *)
(***************************************************************************)
\* largest major / minor / patch number of an input version
MaxNum == 1
\* largest number of dependency edges of an input workspace graph
MaxDeps == 4

(***************************************************************************)
(* semver::Version.  pre and build are sequences of identifiers; the       *)
(* identifiers are alphanumeric and ordered as IdRank orders them.         *)
(***************************************************************************)
Identifiers == {"alpha", "beta"}

IdRank(i) == CASE i = "alpha" -> 1 [] i = "beta" -> 2 [] OTHER -> 3

Pres == {<<>>, <<"alpha">>, <<"beta">>}

Builds == {<<>>, <<"b1">>}

MkVersion(ma, mi, pa, pre, build) ==
    [major |-> ma, minor |-> mi, patch |-> pa, pre |-> pre, build |-> build]

Versions ==
    {MkVersion(ma, mi, pa, pre, build) :
        ma \in 0..MaxNum, mi \in 0..MaxNum, pa \in 0..MaxNum,
        pre \in Pres, build \in Builds}

\* Vec<Identifier>::cmp: lexicographic, a proper prefix is smaller
RECURSIVE PreLt(_, _)
PreLt(p, q) ==
    IF q = <<>> THEN FALSE
    ELSE IF p = <<>> THEN TRUE
    ELSE IF IdRank(Head(p)) < IdRank(Head(q)) THEN TRUE
    ELSE IF IdRank(Head(p)) > IdRank(Head(q)) THEN FALSE
    ELSE PreLt(Tail(p), Tail(q))

\* semver's PartialEq for Version: build metadata is not compared
VersionEq(a, b) ==
    /\ a.major = b.major
    /\ a.minor = b.minor
    /\ a.patch = b.patch
    /\ a.pre = b.pre

\* semver's Ord for Version: numbers first, then a version without pre-release
\* identifiers is greater than one with, then the identifiers
VersionLt(a, b) ==
    IF a.major # b.major THEN a.major < b.major
    ELSE IF a.minor # b.minor THEN a.minor < b.minor
    ELSE IF a.patch # b.patch THEN a.patch < b.patch
    ELSE IF a.pre = <<>> THEN FALSE
    ELSE IF b.pre = <<>> THEN TRUE
    ELSE PreLt(a.pre, b.pre)

\* Version::is_prerelease
is_prerelease(v) == v.pre # <<>>

\* semver's Version::increment_patch / _minor / _major
increment_patch(v) == MkVersion(v.major, v.minor, v.patch + 1, <<>>, <<>>)

increment_minor(v) == MkVersion(v.major, v.minor + 1, 0, <<>>, <<>>)

increment_major(v) == MkVersion(v.major + 1, 0, 0, <<>>, <<>>)

(***************************************************************************)
(* version::BumpLevel::bump_version, the bump-level policy: the new        *)
(* version and whether a change is needed.                                 *)
(***************************************************************************)
BumpLevels == {"major", "minor", "patch", "release"}

bump_version(level, v) ==
    CASE level = "major" -> [changed |-> TRUE, version |-> increment_major(v)]
      [] level = "minor" -> [changed |-> TRUE, version |-> increment_minor(v)]
      [] level = "patch" ->
            [changed |-> TRUE,
             version |-> IF is_prerelease(v)
                         THEN [v EXCEPT !.pre = <<>>]
                         ELSE increment_patch(v)]
      [] OTHER ->
            IF is_prerelease(v)
            THEN [changed |-> TRUE, version |-> [v EXCEPT !.pre = <<>>]]
            ELSE [changed |-> FALSE, version |-> v]

(***************************************************************************)
(* TargetVersion and TargetVersion::bump.  The result is                   *)
(* [err |-> FALSE, version |-> Some(v) or None] or the fatal error.        *)
(***************************************************************************)
Relative(level) == [kind |-> "Relative", level |-> level]

Absolute(v) == [kind |-> "Absolute", version |-> v]

TargetVersions ==
    {Relative(l) : l \in BumpLevels} \cup {Absolute(v) : v \in Versions}

\* Result<Option<T>, FatalError>
Ok(x) == [err |-> "", value |-> x]

Err(e) == [err |-> e, value |-> None]

\* faulty variant of bump: the comparison the wrong way round
bump_swapped(target, cur) ==
    IF target.kind = "Relative"
    THEN LET r == bump_version(target.level, cur)
         IN  IF r.changed THEN Ok(Some(r.version)) ELSE Ok(None)
    ELSE IF VersionLt(target.version, cur) THEN Ok(Some(target.version))
    ELSE IF VersionEq(cur, target.version) THEN Ok(None)
    ELSE Err("UnsupportedVersionReq")

bump(target, cur) ==
    IF target.kind = "Relative"
    THEN LET r == bump_version(target.level, cur)
         IN  IF r.changed THEN Ok(Some(r.version)) ELSE Ok(None)
    ELSE IF VersionLt(cur, target.version) THEN Ok(Some(target.version))
    ELSE IF VersionEq(cur, target.version) THEN Ok(None)
    ELSE Err("UnsupportedVersionReq")

(***************************************************************************)
(* semver::VersionReq with one predicate, `=x.y.z[-pre]` or `^x.y.z[-pre]`, *)
(* and VersionReq::matches.                                                *)
(***************************************************************************)
MkReq(op, v) == [op |-> op, major |-> v.major, minor |-> v.minor,
                 patch |-> v.patch, pre |-> v.pre]

\* Predicate::pre_tag_is_compatible: a pre-release version only matches a
\* predicate on the same x.y.z that names a pre-release itself
pre_tag_is_compatible(req, v) ==
    \/ ~is_prerelease(v)
    \/ /\ req.major = v.major
       /\ req.minor = v.minor
       /\ req.patch = v.patch
       /\ req.pre # <<>>

\* Predicate::pre_is_compatible
pre_is_compatible(req, v) ==
    v.pre = <<>> \/ ~PreLt(v.pre, req.pre)

\* Predicate::is_exact
is_exact(req, v) ==
    /\ req.major = v.major
    /\ req.minor = v.minor
    /\ req.patch = v.patch
    /\ req.pre = v.pre

\* Predicate::is_compatible (the caret operator)
is_compatible(req, v) ==
    /\ req.major = v.major
    /\ IF req.major = 0
       THEN IF req.minor = 0
            THEN v.minor = req.minor /\ v.patch = req.patch
            ELSE /\ v.minor = req.minor
                 /\ \/ v.patch > req.patch
                    \/ v.patch = req.patch /\ pre_is_compatible(req, v)
       ELSE \/ v.minor > req.minor
            \/ /\ v.minor = req.minor
               /\ \/ v.patch > req.patch
                  \/ v.patch = req.patch /\ pre_is_compatible(req, v)

matches(req, v) ==
    /\ IF req.op = "=" THEN is_exact(req, v) ELSE is_compatible(req, v)
    /\ pre_tag_is_compatible(req, v)

\* version::set_requirement: the predicate re-targeted at the version, its
\* operator kept; None when that changes nothing
set_requirement(req, v) ==
    LET new_req == MkReq(req.op, v)
    IN  IF new_req = req THEN None ELSE Some(new_req)

(***************************************************************************)
(* config::Config, the resolved per-package configuration, and the         *)
(* workspace configuration.                                                *)
(***************************************************************************)
DependentVersions == {"Ignore", "Warn", "Error", "Fix", "Upgrade"}

DefaultConfig ==
    [disable_release |-> FALSE, disable_publish |-> FALSE,
     disable_tag |-> FALSE, disable_push |-> FALSE,
     no_dev_version |-> FALSE, dev_version_ext |-> "alpha",
     pre_release_hook |-> FALSE, registry |-> FALSE,
     dependent_version |-> "Fix",
     pre_release_replacements |-> FALSE, post_release_replacements |-> FALSE]

DefaultWsConfig ==
    [consolidate_commits |-> FALSE, consolidate_pushes |-> FALSE,
     disable_push |-> FALSE]

(***************************************************************************)
(* find_dependents: the workspace members that declare a dependency on     *)
(* the package, each with the requirement it declares, in the order of     *)
(* ws_meta.packages.                                                       *)
(***************************************************************************)
RECURSIVE find_dep(_, _)
\* Iterator::find over p.dependencies
find_dep(dependencies, name) ==
    IF dependencies = <<>> THEN None
    ELSE IF Head(dependencies).name = name THEN Some(Head(dependencies))
    ELSE find_dep(Tail(dependencies), name)

RECURSIVE find_dependents_from(_, _, _, _)
find_dependents_from(packages, members, metas, name) ==
    IF packages = <<>> THEN <<>>
    ELSE LET p == Head(packages)
             d == find_dep(metas[p].dependencies, name)
             rest == find_dependents_from(Tail(packages), members, metas, name)
         IN  IF p \in members /\ d # None
             THEN <<[pkg |-> p, req |-> Get(d).req]>> \o rest
             ELSE rest

\* faulty variant of find_dependents: every package of the metadata counts
find_dependents_of_every_package(packages, members, metas, name) ==
    find_dependents_from(packages, {packages[i] : i \in DOMAIN packages}, metas,
                         name)

find_dependents(packages, members, metas, name) ==
    find_dependents_from(packages, members, metas, name)

(***************************************************************************)
(* PackageRelease::load.  meta: [version, publish] of the package's        *)
(* manifest; cfg: the configuration resolved from the files and flags;     *)
(* found: find_dependents of the package.  The result is Ok(None) for a    *)
(* package whose release is disabled, Ok(Some(plan)) or the fatal error of *)
(* bump.                                                                   *)
(***************************************************************************)
\* faulty variant of post_version_of: the patch number is not incremented
post_version_unbumped(base, is_pre_release, cfg) ==
    IF ~is_pre_release /\ ~cfg.no_dev_version
    THEN Some([base EXCEPT !.pre = Append(base.pre, cfg.dev_version_ext)])
    ELSE None

\* `let post_version = if !is_pre_release && !config.no_dev_version() { .. }`
post_version_of(base, is_pre_release, cfg) ==
    IF ~is_pre_release /\ ~cfg.no_dev_version
    THEN LET post == increment_patch(base)
         IN  Some([post EXCEPT !.pre = Append(post.pre, cfg.dev_version_ext)])
    ELSE None

\* faulty variant of release_config: the manifest's publish flag is not
\* looked at
release_config_as_configured(meta, cfg) == cfg

\* the `publish` flag in the cargo file is applied over the resolved config
release_config(meta, cfg) ==
    IF ~meta.publish THEN [cfg EXCEPT !.disable_publish = TRUE] ELSE cfg

load(target, id, meta, cfg, found) ==
    LET config == release_config(meta, cfg)
    IN  IF config.disable_release THEN Ok(None)
        ELSE LET prev_version == meta.version
                 b == bump(target, prev_version)
             IN  IF b.err # "" THEN b
                 ELSE LET version == b.value
                          is_pre_release ==
                              IF version # None THEN is_prerelease(Get(version))
                              ELSE FALSE
                          dependents == IF version # None THEN found ELSE <<>>
                          base == IF version # None THEN Get(version)
                                  ELSE prev_version
                      IN  Ok(Some([id |-> id,
                                   config |-> config,
                                   prev_version |-> prev_version,
                                   version |-> version,
                                   tag |-> IF config.disable_tag THEN None
                                           ELSE Some(base),
                                   post_version |->
                                       post_version_of(base, is_pre_release,
                                                       config),
                                   dependents |-> dependents]))

(***************************************************************************)
(* sort_workspace: depth-first post-order over the member-to-member edges. *)
(***************************************************************************)
Packages == {1, 2, 3, 4, 5}

Members == {1, 2, 3, 4}

SeqToSet(s) == {s[i] : i \in DOMAIN s}

\* dep_tree: the resolve nodes of the workspace members
dep_tree_keys(members) == SeqToSet(members)

RECURSIVE sort_workspace_inner(_, _, _, _)
RECURSIVE visit_deps(_, _, _, _)

RECURSIVE visit_deps_unfiltered(_, _, _, _)
\* faulty variant of visit_deps: a dependency outside the workspace is
\* visited as well
visit_deps_unfiltered(deps, tree, keys, st) ==
    IF deps = <<>> THEN st
    ELSE visit_deps_unfiltered(Tail(deps), tree, keys,
                               sort_workspace_inner(Head(deps), tree, keys, st))

\* the for loop of sort_workspace_inner over the dependencies left to visit
visit_deps(deps, tree, keys, st) ==
    IF deps = <<>> THEN st
    ELSE visit_deps(Tail(deps), tree, keys,
                    IF Head(deps) \in keys
                    THEN sort_workspace_inner(Head(deps), tree, keys, st)
                    ELSE st)

\* faulty variant of sort_workspace_inner: the package is pushed before its
\* dependencies are visited
sort_workspace_inner_preorder(pkg_id, tree, keys, st) ==
    IF pkg_id \in st.processed THEN st
    ELSE visit_deps(tree[pkg_id], tree, keys,
                    [processed |-> st.processed \cup {pkg_id},
                     sorted |-> Append(st.sorted, pkg_id)])

\* faulty variant of sort_workspace_inner: a package already processed is
\* visited and pushed again
sort_workspace_inner_unmarked(pkg_id, tree, keys, st) ==
    LET after == visit_deps(tree[pkg_id], tree, keys, st)
    IN  [after EXCEPT !.sorted = Append(@, pkg_id)]

sort_workspace_inner(pkg_id, tree, keys, st) ==
    IF pkg_id \in st.processed THEN st
    ELSE LET after == visit_deps(tree[pkg_id], tree, keys,
                                 [st EXCEPT !.processed = @ \cup {pkg_id}])
         IN  [after EXCEPT !.sorted = Append(@, pkg_id)]

RECURSIVE sort_members(_, _, _, _)
\* the for loop of sort_workspace over ws_meta.workspace_members
sort_members(todo, tree, keys, st) ==
    IF todo = <<>> THEN st
    ELSE sort_members(Tail(todo), tree, keys,
                      sort_workspace_inner(Head(todo), tree, keys, st))

sort_workspace(members, tree) ==
    sort_members(members, tree, dep_tree_keys(members),
                 [processed |-> {}, sorted |-> <<>>]).sorted

(***************************************************************************)
(* Input workspaces: edge sets of at most MaxDeps edges from a member to   *)
(* any package, listed per node in ascending or descending id order.       *)
(***************************************************************************)
PossibleEdges == {e \in Members \X Packages : TRUE}

RECURSIVE EdgeSets(_)
EdgeSets(k) ==
    IF k = 0 THEN {{}}
    ELSE LET smaller == EdgeSets(k - 1)
         IN  smaller \cup {s \cup {e} : s \in smaller, e \in PossibleEdges}

RECURSIVE SortedSeq(_, _)
\* the elements of S as a sequence, ascending or descending
SortedSeq(S, ascending) ==
    IF S = {} THEN <<>>
    ELSE LET x == IF ascending
                  THEN CHOOSE y \in S : \A z \in S : y <= z
                  ELSE CHOOSE y \in S : \A z \in S : y >= z
         IN  <<x>> \o SortedSeq(S \ {x}, ascending)

ResolveOf(edges, ascending) ==
    [n \in Packages |-> SortedSeq({m \in Packages : <<n, m>> \in edges}, ascending)]

(***************************************************************************)
(* Collaborator calls.  A call is made ("run"), only announced because of  *)
(* dry-run ("skip"), or is a line of the log ("log").  abort is the status *)
(* release_packages returns when the call returns false (0: the call has   *)
(* no such result).                                                        *)
(***************************************************************************)
Call(op, phase, pkg, exec, abort, arg) ==
    [op |-> op, phase |-> phase, pkg |-> pkg, exec |-> exec, abort |-> abort,
     arg |-> arg]

\* faulty variant of call_exec: the command is run in a dry run too
call_exec_always(dry_run) == "run"

\* cmd::call / cmd::call_on_path: in dry-run the command is logged and
\* reported as successful, otherwise it is spawned
call_exec(dry_run) == IF dry_run THEN "skip" ELSE "run"

\* faulty variant of guarded: the write is made in a dry run too
guarded_never(dry_run) == "run"

\* the guard `if !dry_run { .. }` around cargo::set_package_version,
\* cargo::set_dependency_version and cargo::update_lock
guarded(dry_run) == IF dry_run THEN "skip" ELSE "run"

\* do_file_replacements: in dry-run the files are read and the difference
\* is shown, otherwise they are rewritten
replace_exec(dry_run) == IF dry_run THEN "skip" ELSE "run"

\* the workspace as the `pkg` of a call
WsRoot == 0

\* faulty variant of hook_exec: the hook is skipped in a dry run
hook_exec_skipping(dry_run) == IF dry_run THEN "skip" ELSE "run"

\* `cmd::call_with_env(pre_rel_hook, envs, cwd, false)`: "we set
\* dry_run=false and always execute the command"
hook_exec(dry_run) == "run"

\* faulty variant of confirm_required: a dry run asks too
confirm_required_in_dry_run(dry_run, no_confirm) == ~no_confirm

\* `if !dry_run && !args.no_confirm`
confirm_required(dry_run, no_confirm) == ~dry_run /\ ~no_confirm

(***************************************************************************)
(* update_dependent_versions: the calls it makes and whether it fails.     *)
(***************************************************************************)
\* the arms of `match pkg.config.dependent_version()`, for one dependent
\* whose requirement matches the new version or not (mismatch):
\* Warn and Error log a warning on a mismatch
policy_warns(policy, mismatch) == policy \in {"Warn", "Error"} /\ mismatch

\* faulty variant of policy_fails: Warn fails like Error
policy_fails_on_warn(policy, mismatch) ==
    policy \in {"Warn", "Error"} /\ mismatch

\* Error sets dependents_failed on a mismatch
policy_fails(policy, mismatch) == policy = "Error" /\ mismatch

\* faulty variant of policy_sets_requirement: Upgrade acts like Fix
policy_sets_requirement_on_mismatch(policy, mismatch) ==
    policy \in {"Fix", "Upgrade"} /\ mismatch

\* faulty variant of policy_sets_requirement: Error rewrites the requirement
\* of a mismatching dependent before it fails
policy_sets_requirement_under_error(policy, mismatch) ==
    (policy \in {"Fix", "Error"} /\ mismatch) \/ policy = "Upgrade"

\* Fix calls version::set_requirement on a mismatch, Upgrade always

\* Fix calls version::set_requirement on a mismatch, Upgrade always
policy_sets_requirement(policy, mismatch) ==
    (policy = "Fix" /\ mismatch) \/ policy = "Upgrade"

\* the body of the loop over pkg.dependents
update_dependent(dep, policy, id, version, dry_run, phase) ==
    LET mismatch == ~matches(dep.req, version)
        new_req == set_requirement(dep.req, version)
    IN  [calls |->
            (IF policy_warns(policy, mismatch)
             THEN <<Call("warn", phase, id, "log", 0, <<dep.pkg>>)>>
             ELSE <<>>)
            \o (IF policy_sets_requirement(policy, mismatch) /\ new_req # None
                THEN <<Call("set_dependency_version", phase, id,
                            guarded(dry_run), 0, <<dep.pkg, Get(new_req)>>)>>
                ELSE <<>>),
         dependents_failed |-> policy_fails(policy, mismatch)]

RECURSIVE update_dependents_until_failure(_, _, _, _, _, _)
\* faulty variant of update_dependents_from: the loop ends at the first
\* dependent that fails
update_dependents_until_failure(dependents, policy, id, version, dry_run, phase) ==
    IF dependents = <<>> THEN [calls |-> <<>>, dependents_failed |-> FALSE]
    ELSE LET one == update_dependent(Head(dependents), policy, id, version,
                                     dry_run, phase)
             rest == update_dependents_until_failure(Tail(dependents), policy,
                                                     id, version, dry_run, phase)
         IN  IF one.dependents_failed THEN one
             ELSE [calls |-> one.calls \o rest.calls,
                   dependents_failed |-> rest.dependents_failed]

RECURSIVE update_dependents_from(_, _, _, _, _, _)
\* `for dep in pkg.dependents.iter()`
update_dependents_from(dependents, policy, id, version, dry_run, phase) ==
    IF dependents = <<>> THEN [calls |-> <<>>, dependents_failed |-> FALSE]
    ELSE LET one == update_dependent(Head(dependents), policy, id, version,
                                     dry_run, phase)
             rest == update_dependents_from(Tail(dependents), policy, id,
                                            version, dry_run, phase)
         IN  [calls |-> one.calls \o rest.calls,
              dependents_failed |->
                  one.dependents_failed \/ rest.dependents_failed]

update_dependent_versions(pkg, version, dry_run, phase) ==
    update_dependents_from(pkg.dependents, pkg.config.dependent_version,
                           pkg.id, version, dry_run, phase)

(***************************************************************************)
(* The calls of each step of release_packages, in the order the code makes *)
(* them when every call succeeds, and whether the step ends in the fatal   *)
(* DependencyVersionConflict after them.                                   *)
(***************************************************************************)
Step(calls, conflict) == [calls |-> calls, conflict |-> conflict]

\* STEP 0 up to the dirty check
preflight_dirty_calls(consolidate, plans) ==
    <<Call("git_version", "preflight", WsRoot, "run", 0, <<>>)>>
    \o (IF consolidate
        THEN <<Call("is_dirty", "preflight", WsRoot, "run", 0, <<>>)>>
        ELSE [i \in 1..Len(plans) |->
                 Call("is_dirty", "preflight", plans[i].id, "run", 0, <<>>)])

RECURSIVE changed_files_calls(_)
changed_files_calls(plans) ==
    IF plans = <<>> THEN <<>>
    ELSE (IF Head(plans).version # None
          THEN <<Call("changed_files", "preflight", Head(plans).id, "run", 0, <<>>)>>
          ELSE <<>>)
         \o changed_files_calls(Tail(plans))

\* faulty variant of dirty_abort: a dry run stops on a dirty tree too
dirty_abort_always(dirty, dry_run) == dirty

\* `if dirty { if !args.dry_run { return Ok(101); } }`
dirty_abort(dirty, dry_run) == dirty /\ ~dry_run

\* STEP 0 after the dirty check: the changed files of each pending release,
\* then the fetch of the upstream branch; the branch queries around the fetch
\* only feed warnings and are not recorded
preflight_rest_calls(plans) ==
    changed_files_calls(plans)
    \o <<Call("fetch", "preflight", WsRoot, "run", 0, <<>>)>>

\* faulty variant of version_step: the commit is issued before the lock
\* refresh, the text substitutions and the hook
version_step_commit_first(pkg, dry_run, consolidate) ==
    IF pkg.version = None THEN Step(<<>>, FALSE)
    ELSE LET version == Get(pkg.version)
             udv == update_dependent_versions(pkg, version, dry_run, "version")
             head == <<Call("set_package_version", "version", pkg.id,
                            guarded(dry_run), 0, <<version>>)>>
                     \o udv.calls
         IN  IF udv.dependents_failed THEN Step(head, TRUE)
             ELSE Step(
                 head
                 \o (IF consolidate THEN <<>>
                     ELSE <<Call("commit", "version", pkg.id,
                                 call_exec(dry_run), 102, <<>>)>>)
                 \o <<Call("update_lock", "version", pkg.id, guarded(dry_run),
                           0, <<>>)>>
                 \o (IF pkg.config.pre_release_replacements
                     THEN <<Call("replace", "version", pkg.id,
                                 replace_exec(dry_run), 0, <<>>)>>
                     ELSE <<>>)
                 \o (IF pkg.config.pre_release_hook
                     THEN <<Call("hook", "version", pkg.id, hook_exec(dry_run), 107,
                                 <<>>)>>
                     ELSE <<>>),
                 FALSE)

\* STEP 2, one package

\* STEP 2, one package
version_step(pkg, dry_run, consolidate) ==
    IF pkg.version = None THEN Step(<<>>, FALSE)
    ELSE LET version == Get(pkg.version)
             udv == update_dependent_versions(pkg, version, dry_run, "version")
             head == <<Call("set_package_version", "version", pkg.id,
                            guarded(dry_run), 0, <<version>>)>>
                     \o udv.calls
         IN  IF udv.dependents_failed THEN Step(head, TRUE)
             ELSE Step(
                 head
                 \o <<Call("update_lock", "version", pkg.id, guarded(dry_run),
                           0, <<>>)>>
                 \o (IF pkg.config.pre_release_replacements
                     THEN <<Call("replace", "version", pkg.id,
                                 replace_exec(dry_run), 0, <<>>)>>
                     ELSE <<>>)
                 \o (IF pkg.config.pre_release_hook
                     THEN <<Call("hook", "version", pkg.id, hook_exec(dry_run), 107,
                                 <<>>)>>
                     ELSE <<>>)
                 \o (IF consolidate THEN <<>>
                     ELSE <<Call("commit", "version", pkg.id,
                                 call_exec(dry_run), 102, <<>>)>>),
                 FALSE)

\* faulty variant of shared_commit_step: a dry run leaves the shared commit out
shared_commit_step_real_only(shared_commit, dry_run) ==
    Step(IF shared_commit /\ ~dry_run
         THEN <<Call("commit", "version", WsRoot, "run", 102, <<>>)>>
         ELSE <<>>,
         FALSE)

\* the shared commit after STEP 2
shared_commit_step(shared_commit, dry_run) ==
    Step(IF shared_commit
         THEN <<Call("commit", "version", WsRoot, call_exec(dry_run), 102, <<>>)>>
         ELSE <<>>,
         FALSE)

\* STEP 3, one package
publish_step(pkg, dry_run) ==
    IF pkg.config.disable_publish THEN Step(<<>>, FALSE)
    ELSE LET base == IF pkg.version # None THEN Get(pkg.version)
                     ELSE pkg.prev_version
         IN  Step(
             <<Call("publish", "publish", pkg.id, call_exec(dry_run), 103, <<>>)>>
             \o (IF ~pkg.config.registry
                 THEN <<Call("wait_for_publish", "publish", pkg.id,
                             guarded(dry_run), 0, <<base>>)>>
                 ELSE <<>>),
             FALSE)

\* faulty variant of tag_step: no tag is created for a package that is not
\* published
tag_step_of_published(pkg, dry_run) ==
    IF pkg.tag = None \/ pkg.config.disable_publish THEN Step(<<>>, FALSE)
    ELSE Step(<<Call("tag", "tag", pkg.id, call_exec(dry_run), 104, pkg.tag)>>,
              FALSE)

\* STEP 5, one package
tag_step(pkg, dry_run) ==
    IF pkg.tag = None THEN Step(<<>>, FALSE)
    ELSE Step(<<Call("tag", "tag", pkg.id, call_exec(dry_run), 104, pkg.tag)>>,
              FALSE)

\* faulty variant of post_step: the package's commit is made in consolidated
\* mode too
post_step_always_commits(pkg, dry_run, consolidate) ==
    IF pkg.post_version = None THEN Step(<<>>, FALSE)
    ELSE LET version == Get(pkg.post_version)
             udv == update_dependent_versions(pkg, version, dry_run, "post")
         IN  IF udv.dependents_failed THEN Step(udv.calls, TRUE)
             ELSE Step(
                 udv.calls
                 \o <<Call("set_package_version", "post", pkg.id,
                           guarded(dry_run), 0, <<version>>),
                      Call("update_lock", "post", pkg.id, guarded(dry_run),
                           0, <<>>)>>
                 \o (IF pkg.config.post_release_replacements
                     THEN <<Call("replace", "post", pkg.id,
                                 replace_exec(dry_run), 0, <<>>)>>
                     ELSE <<>>)
                 \o <<Call("commit", "post", pkg.id, call_exec(dry_run),
                           105, <<>>)>>,
                 FALSE)

\* STEP 6, one package
post_step(pkg, dry_run, consolidate) ==
    IF pkg.post_version = None THEN Step(<<>>, FALSE)
    ELSE LET version == Get(pkg.post_version)
             udv == update_dependent_versions(pkg, version, dry_run, "post")
         IN  IF udv.dependents_failed THEN Step(udv.calls, TRUE)
             ELSE Step(
                 udv.calls
                 \o <<Call("set_package_version", "post", pkg.id,
                           guarded(dry_run), 0, <<version>>),
                      Call("update_lock", "post", pkg.id, guarded(dry_run),
                           0, <<>>)>>
                 \o (IF pkg.config.post_release_replacements
                     THEN <<Call("replace", "post", pkg.id,
                                 replace_exec(dry_run), 0, <<>>)>>
                     ELSE <<>>)
                 \o (IF consolidate THEN <<>>
                     ELSE <<Call("commit", "post", pkg.id, call_exec(dry_run),
                                 105, <<>>)>>),
                 FALSE)

\* the shared commit after STEP 6
shared_post_commit_step(shared_commit, dry_run) ==
    Step(IF shared_commit
         THEN <<Call("commit", "post", WsRoot, call_exec(dry_run), 102, <<>>)>>
         ELSE <<>>,
         FALSE)

\* faulty variant of push_step: the package's own disable_push is not looked at
push_step_of_every_package(pkg, dry_run, shared_push) ==
    Step(
        (IF pkg.tag # None
         THEN <<Call("push_tag", "push", pkg.id, call_exec(dry_run), 106, pkg.tag)>>
         ELSE <<>>)
        \o (IF ~shared_push
            THEN <<Call("push", "push", pkg.id, call_exec(dry_run), 106, <<>>)>>
            ELSE <<>>),
        FALSE)

\* STEP 7, one package
push_step(pkg, dry_run, shared_push) ==
    IF pkg.config.disable_push THEN Step(<<>>, FALSE)
    ELSE Step(
        (IF pkg.tag # None
         THEN <<Call("push_tag", "push", pkg.id, call_exec(dry_run), 106, pkg.tag)>>
         ELSE <<>>)
        \o (IF ~shared_push
            THEN <<Call("push", "push", pkg.id, call_exec(dry_run), 106, <<>>)>>
            ELSE <<>>),
        FALSE)

\* the shared push after STEP 7
shared_push_step(shared_push, dry_run) ==
    Step(IF shared_push
         THEN <<Call("push", "push", WsRoot, call_exec(dry_run), 106, <<>>)>>
         ELSE <<>>,
         FALSE)

(***************************************************************************)
(* Running a step: the calls are made in order until one returns false     *)
(* (the step returns the call's abort status) or raises a fatal error      *)
(* (main exits with 128).  Only a call that is really made can fail.       *)
(***************************************************************************)
FatalStatus == 128

Failures(c) ==
    IF c.exec # "run" THEN {}
    ELSE {"fatal"} \cup (IF c.abort # 0 THEN {"false"} ELSE {})

Outcomes(calls) ==
    {[k |-> 0, res |-> "ok"]}
    \cup {[k |-> i, res |-> r] : i \in DOMAIN calls, r \in {"false", "fatal"}}

Possible(calls, out) ==
    IF out.k = 0 THEN TRUE ELSE out.res \in Failures(calls[out.k])

Event(c, ok) ==
    [op |-> c.op, phase |-> c.phase, pkg |-> c.pkg, exec |-> c.exec,
     ok |-> ok, arg |-> c.arg]

RECURSIVE set_dependency(_, _, _)
\* cargo::set_dependency_version on the dependency tables of one manifest
set_dependency(dependencies, name, req) ==
    IF dependencies = <<>> THEN <<>>
    ELSE <<IF Head(dependencies).name = name
           THEN [Head(dependencies) EXCEPT !.req = req]
           ELSE Head(dependencies)>>
         \o set_dependency(Tail(dependencies), name, req)

\* faulty variant of apply_call: a requirement rewritten in STEP 2 is not
\* rewritten again in STEP 6
apply_call_keeping_first(d, c) ==
    IF c.exec # "run" THEN d
    ELSE IF c.op = "set_package_version"
         THEN [d EXCEPT ![c.pkg].version = c.arg[1]]
    ELSE IF c.op = "set_dependency_version" /\ c.phase = "version"
         THEN [d EXCEPT ![c.arg[1]].dependencies =
                            set_dependency(@, c.pkg, c.arg[2])]
    ELSE d

\* the effect on the manifests of one call that was made and succeeded

\* the effect on the manifests of one call that was made and succeeded
apply_call(d, c) ==
    IF c.exec # "run" THEN d
    ELSE IF c.op = "set_package_version"
         THEN [d EXCEPT ![c.pkg].version = c.arg[1]]
    ELSE IF c.op = "set_dependency_version"
         THEN [d EXCEPT ![c.arg[1]].dependencies =
                            set_dependency(@, c.pkg, c.arg[2])]
    ELSE d

RECURSIVE apply_calls(_, _)
apply_calls(d, calls) ==
    IF calls = <<>> THEN d
    ELSE apply_calls(apply_call(d, Head(calls)), Tail(calls))

\* faulty variant of run_step: a call that returns false is taken as done and
\* the run goes on
run_step_ignoring_false(step, out, d) ==
    LET made == IF out.k = 0 THEN step.calls ELSE SubSeq(step.calls, 1, out.k)
    IN  [events |-> [i \in DOMAIN made |-> Event(made[i], i # out.k)],
         disk |-> apply_calls(d, made),
         status |-> IF out.k # 0 /\ out.res = "fatal" THEN Some(FatalStatus)
                    ELSE IF step.conflict THEN Some(FatalStatus)
                    ELSE None]

\* faulty variant of run_step: a step that fails puts the manifests back as
\* they were when it began
run_step_rolling_back(step, out, d) ==
    LET made == IF out.k = 0 THEN step.calls ELSE SubSeq(step.calls, 1, out.k)
    IN  [events |-> [i \in DOMAIN made |-> Event(made[i], i # out.k)],
         disk |-> IF out.k = 0 THEN apply_calls(d, step.calls) ELSE d,
         status |-> IF out.k # 0
                    THEN Some(IF out.res = "false" THEN made[out.k].abort
                              ELSE FatalStatus)
                    ELSE IF step.conflict THEN Some(FatalStatus)
                    ELSE None]

\* what a step leaves behind under outcome `out`
run_step(step, out, d) ==
    LET made == IF out.k = 0 THEN step.calls ELSE SubSeq(step.calls, 1, out.k)
        succeeded == IF out.k = 0 THEN step.calls
                     ELSE SubSeq(step.calls, 1, out.k - 1)
    IN  [events |-> [i \in DOMAIN made |-> Event(made[i], i # out.k)],
         disk |-> apply_calls(d, succeeded),
         status |-> IF out.k # 0
                    THEN Some(IF out.res = "false" THEN made[out.k].abort
                              ELSE FatalStatus)
                    ELSE IF step.conflict THEN Some(FatalStatus)
                    ELSE None]

(***************************************************************************)
(* Positions of release_workspace and release_packages.                    *)
(***************************************************************************)
At(phase, idx, shared) == [phase |-> phase, idx |-> idx, shared_commit |-> shared]

Done == At("done", 0, FALSE)

\* faulty variant of after_iteration: the publish loop follows the version
\* loop at once, without the shared commit
after_iteration_no_shared(p, n) ==
    IF p.idx < n THEN [p EXCEPT !.idx = @ + 1]
    ELSE CASE p.phase = "version" -> At("publish", 1, FALSE)
           [] p.phase = "publish" -> At("tag", 1, FALSE)
           [] p.phase = "tag" -> At("post", 1, FALSE)
           [] p.phase = "post" -> At("shared_post_commit", 0, p.shared_commit)
           [] OTHER -> At("shared_push", 0, FALSE)

\* where control is after the iteration `p.idx` of the loop `p.phase` over n
\* packages
after_iteration(p, n) ==
    IF p.idx < n THEN [p EXCEPT !.idx = @ + 1]
    ELSE CASE p.phase = "version" -> At("shared_commit", 0, p.shared_commit)
           [] p.phase = "publish" -> At("tag", 1, FALSE)
           [] p.phase = "tag" -> At("post", 1, FALSE)
           [] p.phase = "post" -> At("shared_post_commit", 0, p.shared_commit)
           [] OTHER -> At("shared_push", 0, FALSE)

\* faulty variant of enter_loop: the publish loop leaves out the first of
\* several packages
enter_loop_from_second(phase, n) ==
    IF n > 0 THEN At(phase, IF phase = "publish" /\ n > 1 THEN 2 ELSE 1, FALSE)
    ELSE CASE phase = "version" -> At("shared_commit", 0, FALSE)
           [] phase \in {"publish", "tag", "post"} ->
                At("shared_post_commit", 0, FALSE)
           [] OTHER -> At("shared_push", 0, FALSE)

\* entering a loop over n packages: an empty list falls through the loops
enter_loop(phase, n) ==
    IF n > 0 THEN At(phase, 1, FALSE)
    ELSE CASE phase = "version" -> At("shared_commit", 0, FALSE)
           [] phase \in {"publish", "tag", "post"} ->
                At("shared_post_commit", 0, FALSE)
           [] OTHER -> At("shared_push", 0, FALSE)

\* a step of release_packages: run it, then stop with its status or go on
Perform(step, next_pc) ==
    \E out \in Outcomes(step.calls) :
        /\ Possible(step.calls, out)
        /\ LET r == run_step(step, out, disk)
           IN  /\ log' = log \o r.events
               /\ disk' = r.disk
               /\ status' = r.status
               /\ pc' = IF r.status # None THEN Done ELSE next_pc

(***************************************************************************)
(* release_workspace up to the call of release_packages.                   *)
(***************************************************************************)
RECURSIVE first_error(_)
\* collect() of the load results into a Result: the first error wins
first_error(results) ==
    IF results = <<>> THEN ""
    ELSE IF Head(results).err # "" THEN Head(results).err
    ELSE first_error(Tail(results))

\* faulty variant of filter_plans: the plans in the order of the selection,
\* not of pkg_ids
filter_plans_unsorted(pkg_ids, selected, results) ==
    LET kept == {i \in DOMAIN selected : results[i].value # None}
        order == SortedSeq(kept, TRUE)
    IN  [k \in DOMAIN order |-> Get(results[order[k]].value)]

RECURSIVE filter_plans(_, _, _)
\* pkg_ids.filter_map(|id| pkg_releases.get(id))
filter_plans(pkg_ids, selected, results) ==
    IF pkg_ids = <<>> THEN <<>>
    ELSE LET id == Head(pkg_ids)
             hits == {i \in DOMAIN selected :
                         selected[i] = id /\ results[i].value # None}
             rest == filter_plans(Tail(pkg_ids), selected, results)
         IN  IF hits = {} THEN rest
             ELSE <<Get(results[CHOOSE i \in hits : TRUE].value)>> \o rest

load_selected(w, members, target) ==
    [i \in DOMAIN w.selected |->
        load(target, w.selected[i], w.metas[w.selected[i]],
             w.configs[w.selected[i]],
             find_dependents(w.packages, SeqToSet(members), w.metas,
                             w.selected[i]))]

\* faulty variant of nothing_selected: the run goes on with no package
nothing_selected_never(selected) == FALSE

\* `selected_pkgs.is_empty()`
nothing_selected(selected) == selected = <<>>

ReleaseWorkspace ==
    /\ mode = "release"
    /\ pc.phase = "start"
    /\ LET pkg_ids == sort_workspace(workspace_members, resolve)
           results == load_selected(ws, workspace_members, level_or_version)
       IN  IF nothing_selected(ws.selected)
           THEN /\ status' = Some(0)
                /\ pc' = Done
                /\ UNCHANGED <<pkgs, log>>
           ELSE \E top_level_ok \in BOOLEAN :
                /\ log' = log \o <<Event(Call("top_level", "start", WsRoot,
                                              "run", 0, <<>>), top_level_ok)>>
                /\ IF ~top_level_ok \/ first_error(results) # ""
                   THEN /\ status' = Some(FatalStatus)
                        /\ pc' = Done
                        /\ UNCHANGED pkgs
                   ELSE /\ pkgs' = filter_plans(pkg_ids, ws.selected, results)
                        /\ pc' = At("preflight", 0, FALSE)
                        /\ UNCHANGED status
    /\ UNCHANGED <<mode, sortVars, loadVars, inputVars, tree_dirty, disk,
                   waitVars, observed,
                   manifestVars, verbosityVars>>

(***************************************************************************)
(* release_packages.                                                       *)
(***************************************************************************)
frame == <<mode, sortVars, loadVars, inputVars, pkgs, waitVars, observed,
          manifestVars, verbosityVars>>

\* what git::changed_files can report for a package: no previous tag (None),
\* no path, Cargo.lock alone, or other paths
ChangeKinds == {"missing_tag", "none", "lock_only", "changed"}

\* what STEP 0 can find in the repository: the changed files of each plan,
\* whether HEAD is detached, whether the branch is behind the remote
Observations(plans) ==
    [changed : [DOMAIN plans -> ChangeKinds], detached : BOOLEAN,
     behind : BOOLEAN]

\* a repository that gives STEP 0 nothing to warn about
Quiet(plans) ==
    [changed |-> [i \in DOMAIN plans |-> "changed"], detached |-> FALSE,
     behind |-> FALSE]

\* the paths left after `changed.swap_remove(lock_index)`
changed_is_empty(kind) == kind \in {"none", "lock_only"}

\* the log::warn! lines of STEP 0 after the dirty check, given the calls that
\* were made
preflight_warnings(plans, obs, events) ==
    {[kind |-> "no_changes", pkg |-> plans[i].id] :
        i \in {j \in DOMAIN plans :
                  /\ plans[j].version # None
                  /\ changed_is_empty(obs.changed[j])
                  /\ \E x \in DOMAIN events :
                        /\ events[x].op = "changed_files"
                        /\ events[x].pkg = plans[j].id
                        /\ events[x].ok}}
    \cup {[kind |-> "detached", pkg |-> WsRoot] :
            x \in {y \in DOMAIN events : events[y].op = "fetch" /\ obs.detached}}
    \cup {[kind |-> "behind", pkg |-> WsRoot] :
            x \in {y \in DOMAIN events :
                      events[y].op = "fetch" /\ events[y].ok /\ obs.behind}}

\* faulty variant of observation_stops: the run stops when the branch is
\* behind the remote
observation_stops_when_behind(obs) == obs.behind

\* what STEP 0 finds after the dirty check ends in log lines only: no branch
\* of it returns
observation_stops(obs) == FALSE

\* STEP 0: Help the user make the right decisions.  `all` tells whether the
\* repository is any repository or one that gives nothing to warn about.
PreflightSeeing(all) ==
    /\ mode = "release"
    /\ pc.phase = "preflight"
    /\ \E dirty \in BOOLEAN,
          obs \in (IF all THEN Observations(pkgs) ELSE {Quiet(pkgs)}) :
          /\ LET checks == preflight_dirty_calls(ws_config.consolidate_commits, pkgs)
                 abort == dirty_abort(dirty, args.dry_run)
                 calls == IF abort THEN checks
                          ELSE checks \o preflight_rest_calls(pkgs)
             IN  \E out \in Outcomes(calls) :
                    /\ Possible(calls, out)
                    /\ LET r == run_step(Step(calls, FALSE), out, disk)
                           stops == r.status = None /\ ~abort
                                    /\ observation_stops(obs)
                       IN  /\ tree_dirty' = (dirty /\ (out.k = 0 \/ out.k > Len(checks)))
                           /\ observed' =
                                  Some([seen |-> obs,
                                        warned |-> preflight_warnings(pkgs, obs,
                                                                      r.events)])
                           /\ log' = log \o r.events
                           /\ disk' = r.disk
                           /\ status' = IF r.status # None THEN r.status
                                        ELSE IF abort THEN Some(101)
                                        ELSE IF stops THEN Some(FatalStatus)
                                        ELSE None
                           /\ pc' = IF r.status # None \/ abort \/ stops THEN Done
                                    ELSE At("confirm", 0, FALSE)
    /\ UNCHANGED <<mode, sortVars, loadVars, inputVars, pkgs, waitVars,
                   manifestVars, verbosityVars>>

Preflight == PreflightSeeing(FALSE)

ObservedPreflight == PreflightSeeing(TRUE)

\* STEP 1: Release Confirmation
Confirm ==
    /\ mode = "release"
    /\ pc.phase = "confirm"
    /\ IF confirm_required(args.dry_run, args.no_confirm)
       THEN \E confirmed \in BOOLEAN :
               /\ log' = log \o <<Event(Call("confirm", "confirm", WsRoot,
                                             "run", 0, <<>>), confirmed)>>
               /\ status' = IF confirmed THEN None ELSE Some(0)
               /\ pc' = IF confirmed THEN enter_loop("version", Len(pkgs))
                        ELSE Done
       ELSE /\ pc' = enter_loop("version", Len(pkgs))
            /\ UNCHANGED <<log, status>>
    /\ UNCHANGED <<frame, tree_dirty, disk>>

\* STEP 2: update current version, save and commit (one package)
VersionCommit ==
    /\ mode = "release"
    /\ pc.phase = "version"
    /\ LET pkg == pkgs[pc.idx]
           shared == pc.shared_commit
                     \/ (pkg.version # None /\ ws_config.consolidate_commits)
       IN  Perform(version_step(pkg, args.dry_run, ws_config.consolidate_commits),
                   after_iteration([pc EXCEPT !.shared_commit = shared],
                                   Len(pkgs)))
    /\ UNCHANGED <<frame, tree_dirty>>

SharedCommit ==
    /\ mode = "release"
    /\ pc.phase = "shared_commit"
    /\ Perform(shared_commit_step(pc.shared_commit, args.dry_run),
               enter_loop("publish", Len(pkgs)))
    /\ UNCHANGED <<frame, tree_dirty>>

\* STEP 3: cargo publish (one package)
Publish ==
    /\ mode = "release"
    /\ pc.phase = "publish"
    /\ Perform(publish_step(pkgs[pc.idx], args.dry_run),
               after_iteration(pc, Len(pkgs)))
    /\ UNCHANGED <<frame, tree_dirty>>

\* STEP 5: Tag (one package)
Tag ==
    /\ mode = "release"
    /\ pc.phase = "tag"
    /\ Perform(tag_step(pkgs[pc.idx], args.dry_run),
               after_iteration(pc, Len(pkgs)))
    /\ UNCHANGED <<frame, tree_dirty>>

\* STEP 6: bump version (one package)
PostBump ==
    /\ mode = "release"
    /\ pc.phase = "post"
    /\ LET pkg == pkgs[pc.idx]
           shared == pc.shared_commit
                     \/ (pkg.post_version # None /\ ws_config.consolidate_commits)
       IN  Perform(post_step(pkg, args.dry_run, ws_config.consolidate_commits),
                   after_iteration([pc EXCEPT !.shared_commit = shared],
                                   Len(pkgs)))
    /\ UNCHANGED <<frame, tree_dirty>>

\* the shared commit of STEP 6, then `if !ws_config.disable_push()`
SharedPostCommit ==
    /\ mode = "release"
    /\ pc.phase = "shared_post_commit"
    /\ \E out \in Outcomes(shared_post_commit_step(pc.shared_commit,
                                                   args.dry_run).calls) :
          LET step == shared_post_commit_step(pc.shared_commit, args.dry_run)
              r == run_step(step, out, disk)
          IN  /\ Possible(step.calls, out)
              /\ log' = log \o r.events
              /\ disk' = r.disk
              /\ status' = IF r.status # None THEN r.status
                           ELSE IF ws_config.disable_push THEN Some(0)
                           ELSE None
              /\ pc' = IF r.status # None \/ ws_config.disable_push THEN Done
                       ELSE enter_loop("push", Len(pkgs))
    /\ UNCHANGED <<frame, tree_dirty>>

\* STEP 7: git push (one package)
Push ==
    /\ mode = "release"
    /\ pc.phase = "push"
    /\ Perform(push_step(pkgs[pc.idx], args.dry_run,
                         ws_config.consolidate_pushes),
               after_iteration(pc, Len(pkgs)))
    /\ UNCHANGED <<frame, tree_dirty>>

\* the shared push of STEP 7, then Ok(0)
SharedPush ==
    /\ mode = "release"
    /\ pc.phase = "shared_push"
    /\ \E out \in Outcomes(shared_push_step(ws_config.consolidate_pushes,
                                            args.dry_run).calls) :
          LET step == shared_push_step(ws_config.consolidate_pushes, args.dry_run)
              r == run_step(step, out, disk)
          IN  /\ Possible(step.calls, out)
              /\ log' = log \o r.events
              /\ disk' = r.disk
              /\ status' = IF r.status # None THEN r.status ELSE Some(0)
              /\ pc' = Done
    /\ UNCHANGED <<frame, tree_dirty>>

(***************************************************************************)
(* SpecSort                                                                *)
(***************************************************************************)
IdleLoad ==
    /\ current = [version |-> MkVersion(0, 0, 0, <<>>, <<>>), publish |-> TRUE]
    /\ level_or_version = Relative("release")
    /\ load_config = DefaultConfig
    /\ loaded = None

IdleSort ==
    /\ workspace_members = <<>>
    /\ resolve = [n \in Packages |-> <<>>]
    /\ sorted = None

IdleWait ==
    /\ timeout = 0
    /\ elapsed = 0
    /\ polls = <<>>

IdleManifest ==
    /\ manifest = <<>>
    /\ dep_name = "foo"
    /\ dep_version = "1.0"
    /\ written = None

IdleVerbosity ==
    /\ logging = [quiet |-> 0, verbose |-> 0]
    /\ log_level = None

IdleRelease ==
    /\ IdleWait
    /\ IdleManifest
    /\ IdleVerbosity
    /\ observed = None
    /\ args = [dry_run |-> FALSE, no_confirm |-> FALSE]
    /\ ws_config = DefaultWsConfig
    /\ ws = [packages |-> <<>>, metas |-> <<>>, configs |-> <<>>,
             selected |-> <<>>]
    /\ pkgs = <<>>
    /\ pc = Done
    /\ tree_dirty = FALSE
    /\ status = None
    /\ log = <<>>
    /\ disk = <<>>

InitSort ==
    /\ mode = "sort"
    /\ \E edges \in EdgeSets(MaxDeps), asc \in BOOLEAN, masc \in BOOLEAN :
          /\ resolve = ResolveOf(edges, asc)
          /\ workspace_members = SortedSeq(Members, masc)
    /\ sorted = None
    /\ IdleLoad
    /\ IdleRelease

SortWorkspace ==
    /\ mode = "sort"
    /\ sorted = None
    /\ sorted' = Some(sort_workspace(workspace_members, resolve))
    /\ UNCHANGED <<mode, workspace_members, resolve, loadVars, inputVars, runVars,
                   waitVars,
                   manifestVars, verbosityVars>>

NextSort == SortWorkspace

SpecSort == InitSort /\ [][NextSort]_vars

(***************************************************************************)
(* SpecLoad                                                                *)
(***************************************************************************)
\* the manifest versions drawn as inputs; build metadata is drawn on the side
\* of the requested version
CurrentVersions == {v \in Versions : v.build = <<>>}

LoadConfigs ==
    {[DefaultConfig EXCEPT !.disable_release = r, !.disable_tag = t,
                           !.no_dev_version = n] :
        r \in BOOLEAN, t \in BOOLEAN, n \in BOOLEAN}

\* what find_dependents returns for the package loaded in SpecLoad
LoadDependents ==
    <<[pkg |-> 2, req |-> MkReq("^", MkVersion(0, 0, 0, <<>>, <<>>))]>>

InitLoad ==
    /\ mode = "load"
    /\ current \in [version : CurrentVersions, publish : BOOLEAN]
    /\ level_or_version \in TargetVersions
    /\ load_config \in LoadConfigs
    /\ loaded = None
    /\ IdleSort
    /\ IdleRelease

Load ==
    /\ mode = "load"
    /\ loaded = None
    /\ loaded' = Some(load(level_or_version, 1, current, load_config,
                            LoadDependents))
    /\ UNCHANGED <<mode, current, level_or_version, load_config, sortVars,
                   inputVars, runVars, waitVars,
                   manifestVars, verbosityVars>>

NextLoad == Load

SpecLoad == InitLoad /\ [][NextLoad]_vars

(***************************************************************************)
(* Spec: release_workspace and release_packages.  The runs start from      *)
(* three families of inputs:                                               *)
(*   CoreScenarios       a chain of 1..MaxPkgs packages, all selected, the *)
(*                       default configuration; dry-run, consolidated      *)
(*                       commits, the requested version and the manifest   *)
(*                       versions vary                                     *)
(*   DeviationScenarios  a core scenario of equal manifest versions with   *)
(*                       one setting moved off its default                 *)
(*   GraphScenarios      three members, every acyclic dependency graph,    *)
(*                       member order and selection                        *)
(*   SkipScenarios       a request load refuses, and packages excluded     *)
(*                       from the release                                  *)
(***************************************************************************)
\* largest number of workspace members of a core or deviation scenario
MaxPkgs == 2

V100 == MkVersion(1, 0, 0, <<>>, <<>>)

V100alpha == MkVersion(1, 0, 0, <<"alpha">>, <<>>)

V110beta == MkVersion(1, 1, 0, <<"beta">>, <<>>)

PipeVersions == {V100, V100alpha}

PipeTargets ==
    {Relative("release"), Relative("patch"), Absolute(V110beta),
     Absolute(V100alpha)}

\* the requirement a member declares on another member
PipeReq == MkReq("^", V100)

Scenario(a, t, wc, members, w) ==
    [args |-> a, target |-> t, ws_config |-> wc, members |-> members, ws |-> w]

\* cargo metadata of a workspace of the packages 1..n with the given versions
\* and member-to-member dependency edges
Workspace(n, versions, edges, selected) ==
    [packages |-> [i \in 1..n |-> i],
     metas |-> [id \in Packages |->
                  [version |-> IF id <= n THEN versions[id] ELSE V100,
                   publish |-> TRUE,
                   dependencies |->
                       LET targets == SortedSeq({m \in 1..n : <<id, m>> \in edges},
                                                TRUE)
                       IN  [i \in DOMAIN targets |->
                               [name |-> targets[i], req |-> PipeReq]]]],
     configs |-> [id \in Packages |-> DefaultConfig],
     selected |-> SortedSeq(selected, TRUE)]

Chain(n) == {<<i + 1, i>> : i \in 1..(n - 1)}

CoreScenarios ==
    {Scenario([dry_run |-> d, no_confirm |-> TRUE], t,
              [DefaultWsConfig EXCEPT !.consolidate_commits = c],
              SortedSeq(1..n, FALSE),
              Workspace(n, versions, Chain(n), 1..n)) :
        d \in BOOLEAN, c \in BOOLEAN, t \in PipeTargets,
        n \in 1..MaxPkgs, versions \in [1..MaxPkgs -> PipeVersions]}

\* the settings that can be moved off their default, one at a time
PackageSwitches ==
    {"disable_release", "disable_publish", "disable_tag", "disable_push",
     "no_dev_version", "pre_release_hook", "registry", "publish_false"}

WorkspaceSwitches == {"consolidate_pushes", "disable_push", "confirm"}

Deviations ==
    {[switch |-> sw, pkg |-> id, value |-> "on"] :
        sw \in PackageSwitches, id \in 1..MaxPkgs}
    \cup {[switch |-> "dependent_version", pkg |-> id, value |-> dv] :
            id \in 1..MaxPkgs, dv \in DependentVersions \ {"Fix"}}
    \cup {[switch |-> sw, pkg |-> WsRoot, value |-> "on"] :
            sw \in WorkspaceSwitches}

Deviate(sc, dv) ==
    CASE dv.switch = "confirm" ->
            [sc EXCEPT !.args.no_confirm = FALSE]
      [] dv.switch = "consolidate_pushes" ->
            [sc EXCEPT !.ws_config.consolidate_pushes = TRUE]
      [] dv.switch = "disable_push" /\ dv.pkg = WsRoot ->
            [sc EXCEPT !.ws_config.disable_push = TRUE]
      [] dv.switch = "publish_false" ->
            [sc EXCEPT !.ws.metas[dv.pkg].publish = FALSE]
      [] dv.switch = "disable_release" ->
            [sc EXCEPT !.ws.configs[dv.pkg].disable_release = TRUE]
      [] dv.switch = "disable_publish" ->
            [sc EXCEPT !.ws.configs[dv.pkg].disable_publish = TRUE]
      [] dv.switch = "disable_tag" ->
            [sc EXCEPT !.ws.configs[dv.pkg].disable_tag = TRUE]
      [] dv.switch = "disable_push" ->
            [sc EXCEPT !.ws.configs[dv.pkg].disable_push = TRUE]
      [] dv.switch = "no_dev_version" ->
            [sc EXCEPT !.ws.configs[dv.pkg].no_dev_version = TRUE]
      [] dv.switch = "pre_release_hook" ->
            [sc EXCEPT !.ws.configs[dv.pkg].pre_release_hook = TRUE]
      [] dv.switch = "replacements" ->
            [sc EXCEPT !.ws.configs[dv.pkg].pre_release_replacements = TRUE,
                       !.ws.configs[dv.pkg].post_release_replacements = TRUE]
      [] dv.switch = "registry" ->
            [sc EXCEPT !.ws.configs[dv.pkg].registry = TRUE]
      [] OTHER ->
            [sc EXCEPT !.ws.configs[dv.pkg].dependent_version = dv.value]

\* the core scenarios a deviation is applied to: every package at the same
\* version, and a requested version that leaves the dependents' requirement
\* satisfied (patch) or not (1.1.0-beta)
DeviationBases ==
    {sc \in CoreScenarios :
        /\ sc.target \in {Relative("patch"), Absolute(V110beta)}
        /\ \A id \in DOMAIN sc.ws.packages :
              sc.ws.metas[id].version = sc.ws.metas[1].version}

DeviationScenarios ==
    {Deviate(sc, dv) : sc \in DeviationBases, dv \in Deviations}

\* one package with text substitutions for both phases and a pre-release hook
OrderScenarios ==
    {Deviate(Deviate(sc, [switch |-> "pre_release_hook", pkg |-> id,
                          value |-> "on"]),
             [switch |-> "replacements", pkg |-> id, value |-> "on"]) :
        sc \in DeviationBases, id \in 1..MaxPkgs}

GraphMembers == {1, 2, 3}

GraphEdges == {e \in GraphMembers \X GraphMembers : e[1] # e[2]}

RECURSIVE Closure(_)
\* R with the pairs joined from two of its pairs, until nothing is added
Closure(R) ==
    LET S == R \cup {<<pq[1][1], pq[2][2]>> :
                        pq \in {rs \in R \X R : rs[1][2] = rs[2][1]}}
    IN  IF S = R THEN R ELSE Closure(S)

\* the pairs <<a, c>> with a path of at least one edge from a to c
Reach(edges, nodes) == Closure(edges \cap (nodes \X nodes))

\* no package reaches itself
Acyclic(edges, nodes) ==
    \A n \in nodes : <<n, n>> \notin Reach(edges, nodes)

GraphScenarios ==
    {Scenario([dry_run |-> d, no_confirm |-> TRUE], Relative("patch"),
              DefaultWsConfig, SortedSeq(GraphMembers, asc),
              Workspace(3, [i \in 1..3 |-> V100], edges, sel)) :
        d \in BOOLEAN, asc \in BOOLEAN, sel \in SUBSET GraphMembers,
        edges \in {es \in SUBSET GraphEdges : Acyclic(es, GraphMembers)}}

\* a requested version below the manifest versions, which load refuses, with
\* some of the packages excluded from the release by configuration
SkipScenarios ==
    {Scenario([dry_run |-> d, no_confirm |-> TRUE], Absolute(V100alpha),
              DefaultWsConfig, SortedSeq(1..n, FALSE),
              [Workspace(n, [i \in 1..MaxPkgs |-> V100], Chain(n), 1..n)
                   EXCEPT !.configs =
                              [id \in Packages |->
                                  [DefaultConfig EXCEPT
                                       !.disable_release = id \in off]]]) :
        d \in BOOLEAN, n \in 1..MaxPkgs, off \in SUBSET (1..MaxPkgs)}

\* a chain of three packages whose middle one refuses a release that its
\* dependent's requirement does not admit
ConflictScenarios ==
    {Scenario([dry_run |-> d, no_confirm |-> TRUE], Absolute(V110beta),
              [DefaultWsConfig EXCEPT !.consolidate_commits = c],
              SortedSeq(GraphMembers, FALSE),
              [Workspace(3, [i \in 1..3 |-> V100], Chain(3), GraphMembers)
                   EXCEPT !.configs[2].dependent_version = "Error"]) :
        d \in BOOLEAN, c \in BOOLEAN}

\* packages 2 and 3 depend on package 1; 1 and 2 are the workspace members,
\* 2 declares the dependency in two tables and is left out of the selection
\* or of the release in some of the runs
MemberScenarios ==
    {Scenario([dry_run |-> d, no_confirm |-> TRUE], t, DefaultWsConfig,
              <<1, 2>>,
              [Workspace(3, [i \in 1..3 |-> V100], {<<2, 1>>, <<3, 1>>}, sel)
                   EXCEPT !.metas[2].dependencies =
                              <<[name |-> 1, req |-> PipeReq],
                                [name |-> 1, req |-> MkReq("=", V100)]>>,
                          !.configs[1].dependent_version = policy,
                          !.configs[2].disable_release = off]) :
        d \in BOOLEAN, t \in {Relative("patch"), Absolute(V110beta)},
        sel \in {{1}, {1, 2}}, policy \in {"Fix", "Upgrade"}, off \in BOOLEAN}

Scenarios ==
    CoreScenarios \cup DeviationScenarios \cup OrderScenarios
                  \cup GraphScenarios \cup SkipScenarios
                  \cup ConflictScenarios \cup MemberScenarios

ResolveOfMetas(metas) ==
    [n \in Packages |->
        [i \in DOMAIN metas[n].dependencies |-> metas[n].dependencies[i].name]]

InitOf(scenarios) ==
    /\ mode = "release"
    /\ \E sc \in scenarios :
          /\ args = sc.args
          /\ level_or_version = sc.target
          /\ ws_config = sc.ws_config
          /\ workspace_members = sc.members
          /\ ws = sc.ws
          /\ resolve = ResolveOfMetas(sc.ws.metas)
          /\ disk = [id \in Packages |->
                        [version |-> sc.ws.metas[id].version,
                         dependencies |-> sc.ws.metas[id].dependencies]]
    /\ sorted = None
    /\ current = [version |-> MkVersion(0, 0, 0, <<>>, <<>>), publish |-> TRUE]
    /\ load_config = DefaultConfig
    /\ loaded = None
    /\ pkgs = <<>>
    /\ pc = At("start", 0, FALSE)
    /\ tree_dirty = FALSE
    /\ status = None
    /\ log = <<>>
    /\ observed = None
    /\ IdleWait
    /\ IdleManifest
    /\ IdleVerbosity

Init == InitOf(Scenarios)

Next ==
    \/ ReleaseWorkspace
    \/ Preflight
    \/ Confirm
    \/ VersionCommit
    \/ SharedCommit
    \/ Publish
    \/ Tag
    \/ PostBump
    \/ SharedPostCommit
    \/ Push
    \/ SharedPush

Spec == Init /\ [][Next]_vars

(***************************************************************************)
(* SpecObserve: the pipeline over every repository STEP 0 can find, on the *)
(* workspaces of equal manifest versions where package 1 only warns about  *)
(* its dependents.                                                         *)
(***************************************************************************)
ObserveScenarios ==
    {Deviate(sc, [switch |-> "dependent_version", pkg |-> 1, value |-> "Warn"]) :
        sc \in {b \in DeviationBases :
                    /\ ~b.ws_config.consolidate_commits
                    /\ b.ws.metas[1].version = V100}}

InitObserve == InitOf(ObserveScenarios)

NextObserve ==
    \/ ReleaseWorkspace
    \/ ObservedPreflight
    \/ Confirm
    \/ VersionCommit
    \/ SharedCommit
    \/ Publish
    \/ Tag
    \/ PostBump
    \/ SharedPostCommit
    \/ Push
    \/ SharedPush

SpecObserve == InitObserve /\ [][NextObserve]_vars

(***************************************************************************)
(* SpecDeps: update_dependent_versions on one plan, over every policy, new *)
(* version and list of dependents' requirements.                           *)
(***************************************************************************)
\* largest number of dependents of the plan
MaxDependents == 2

\* the requirements the dependents declare on the package
DepReqs ==
    {MkReq("^", V100), MkReq("=", V100), MkReq("^", V110beta),
     MkReq("^", MkVersion(0, 1, 0, <<>>, <<>>))}

\* the plan of package 1 with the dependents 2, 3, .. declaring reqs
DepsPlan(policy, version, reqs) ==
    [id |-> 1,
     config |-> [DefaultConfig EXCEPT !.dependent_version = policy],
     prev_version |-> MkVersion(0, 0, 0, <<>>, <<>>),
     version |-> Some(version),
     tag |-> None,
     post_version |-> None,
     dependents |-> [i \in DOMAIN reqs |-> [pkg |-> i + 1, req |-> reqs[i]]]]

\* the workspace of package 1 and its dependents
DepsWorkspace(reqs) ==
    [packages |-> [i \in 1..(Len(reqs) + 1) |-> i],
     metas |-> [id \in Packages |->
                  [version |-> MkVersion(0, 0, 0, <<>>, <<>>),
                   publish |-> TRUE,
                   dependencies |->
                       IF (id - 1) \in DOMAIN reqs
                       THEN <<[name |-> 1, req |-> reqs[id - 1]]>>
                       ELSE <<>>]],
     configs |-> [id \in Packages |-> DefaultConfig],
     selected |-> <<1>>]

InitDeps ==
    /\ mode = "deps"
    /\ \E policy \in DependentVersions, version \in CurrentVersions,
          n \in 0..MaxDependents, d \in BOOLEAN :
          \E reqs \in [1..n -> DepReqs] :
             /\ args = [dry_run |-> d, no_confirm |-> TRUE]
             /\ level_or_version = Absolute(version)
             /\ pkgs = <<DepsPlan(policy, version, reqs)>>
             /\ ws = DepsWorkspace(reqs)
             /\ disk = [id \in Packages |->
                           [version |-> DepsWorkspace(reqs).metas[id].version,
                            dependencies |->
                                DepsWorkspace(reqs).metas[id].dependencies]]
    /\ ws_config = DefaultWsConfig
    /\ pc = At("deps", 1, FALSE)
    /\ tree_dirty = FALSE
    /\ status = None
    /\ log = <<>>
    /\ observed = None
    /\ IdleWait
    /\ IdleManifest
    /\ IdleVerbosity
    /\ IdleSort
    /\ current = [version |-> MkVersion(0, 0, 0, <<>>, <<>>), publish |-> TRUE]
    /\ load_config = DefaultConfig
    /\ loaded = None

\* update_dependent_versions(pkg, version, dry_run): Ok(()) is recorded as
\* status 0, an error as the status main exits with
UpdateDependentVersions ==
    /\ mode = "deps"
    /\ pc.phase = "deps"
    /\ LET pkg == pkgs[1]
           udv == update_dependent_versions(pkg, Get(pkg.version), args.dry_run,
                                            "version")
           step == Step(udv.calls, udv.dependents_failed)
       IN  \E out \in Outcomes(step.calls) :
              /\ Possible(step.calls, out)
              /\ LET r == run_step(step, out, disk)
                 IN  /\ log' = log \o r.events
                     /\ disk' = r.disk
                     /\ status' = IF r.status # None THEN r.status ELSE Some(0)
                     /\ pc' = Done
    /\ UNCHANGED <<frame, tree_dirty>>

NextDeps == UpdateDependentVersions

SpecDeps == InitDeps /\ [][NextDeps]_vars

(***************************************************************************)
(* SpecWait: one iteration of STEP 3 of release_packages for one package:  *)
(* cargo::publish, then cargo::wait_for_publish with its poll loop, then   *)
(* the grace sleep.  Time is counted in seconds.                           *)
(***************************************************************************)
\* largest timeout handed to wait_for_publish
MaxTimeout == 2

\* largest time a poll of the index takes, and largest time a sleep lasts
\* beyond the time asked for
MaxDelay == 1

\* the clock is followed up to here: far enough for every timeout to pass
MaxElapsed == MaxTimeout + 2

\* `let sleep_time = std::time::Duration::from_secs(1)`
SleepTime == 1

Min(a, b) == IF a < b THEN a ELSE b

\* faulty variant of wait_skipped: a dry run polls the index too
wait_skipped_never(dry_run) == FALSE

\* wait_for_publish: `if !dry_run { .. }`, and the grace sleep of STEP 3
wait_skipped(dry_run) == dry_run

\* faulty variant of timed_out: the loop gives up one second late
timed_out_late(limit, time) == limit + 1 < time

\* `timeout < now.elapsed()`
timed_out(limit, time) == limit < time

WaitPlan(registry, disable_publish) ==
    [DepsPlan("Fix", V100, <<>>) EXCEPT !.config.registry = registry,
                                        !.config.disable_publish = disable_publish]

InitWait ==
    /\ mode = "wait"
    /\ \E d \in BOOLEAN, registry \in BOOLEAN, disable_publish \in BOOLEAN :
          /\ args = [dry_run |-> d, no_confirm |-> TRUE]
          /\ pkgs = <<WaitPlan(registry, disable_publish)>>
    /\ timeout \in 0..MaxTimeout
    /\ elapsed = 0
    /\ polls = <<>>
    /\ level_or_version = Absolute(V100)
    /\ ws = DepsWorkspace(<<>>)
    /\ disk = [id \in Packages |->
                  [version |-> DepsWorkspace(<<>>).metas[id].version,
                   dependencies |-> DepsWorkspace(<<>>).metas[id].dependencies]]
    /\ ws_config = DefaultWsConfig
    /\ pc = At("publish", 1, FALSE)
    /\ tree_dirty = FALSE
    /\ status = None
    /\ log = <<>>
    /\ observed = None
    /\ IdleSort
    /\ IdleManifest
    /\ IdleVerbosity
    /\ current = [version |-> MkVersion(0, 0, 0, <<>>, <<>>), publish |-> TRUE]
    /\ load_config = DefaultConfig
    /\ loaded = None

waitFrame == <<frame, tree_dirty, disk>>

\* `if !pkg.config.disable_publish()`, cargo::publish and
\* `if pkg.config.registry().is_none()`; the end of the iteration is recorded
\* as status 0
PublishCall ==
    /\ mode = "wait"
    /\ pc.phase = "publish"
    /\ LET step == publish_step(pkgs[1], args.dry_run)
       IN  IF step.calls = <<>>
           THEN /\ status' = Some(0)
                /\ pc' = Done
                /\ UNCHANGED log
           ELSE LET call == Step(<<step.calls[1]>>, FALSE)
                IN  \E out \in Outcomes(call.calls) :
                       /\ Possible(call.calls, out)
                       /\ LET r == run_step(call, out, disk)
                              waits == Len(step.calls) > 1
                          IN  /\ log' = log \o r.events
                              /\ status' = IF r.status # None THEN r.status
                                           ELSE IF waits THEN None
                                           ELSE Some(0)
                              /\ pc' = IF r.status = None /\ waits
                                       THEN At("wait", 1, FALSE)
                                       ELSE Done
    /\ UNCHANGED waitFrame

\* the entry of wait_for_publish: `let now = std::time::Instant::now()`
EnterWait ==
    /\ mode = "wait"
    /\ pc.phase = "wait"
    /\ pc' = IF wait_skipped(args.dry_run) THEN At("grace", 1, FALSE)
             ELSE At("poll", 1, FALSE)
    /\ UNCHANGED <<mode, sortVars, loadVars, inputVars, pkgs, observed, tree_dirty, status,
                   log, disk, waitVars,
                   manifestVars, verbosityVars>>

\* one turn of the loop up to the sleep: the index is updated (a failure is
\* only logged) and searched for the version, then the clock is read
Poll ==
    /\ mode = "wait"
    /\ pc.phase = "poll"
    /\ \E published \in BOOLEAN, d \in 0..MaxDelay :
          LET time == Min(elapsed + d, MaxElapsed)
          IN  /\ elapsed' = time
              /\ polls' = Append(polls, [at |-> time, published |-> published])
              /\ IF published
                 THEN /\ pc' = At("grace", 1, FALSE)
                      /\ UNCHANGED status
                 ELSE IF timed_out(timeout, time)
                 THEN /\ pc' = Done
                      /\ status' = Some(FatalStatus)
                 ELSE /\ pc' = At("sleep", 1, FALSE)
                      /\ UNCHANGED status
    /\ UNCHANGED <<mode, sortVars, loadVars, inputVars, pkgs, observed, tree_dirty, log,
                   disk, timeout,
                   manifestVars, verbosityVars>>

\* `std::thread::sleep(sleep_time)`
Sleep ==
    /\ mode = "wait"
    /\ pc.phase = "sleep"
    /\ \E d \in 0..MaxDelay : elapsed' = Min(elapsed + SleepTime + d, MaxElapsed)
    /\ pc' = At("poll", 1, FALSE)
    /\ UNCHANGED <<mode, sortVars, loadVars, inputVars, pkgs, observed, tree_dirty, status,
                   log, disk, timeout, polls,
                   manifestVars, verbosityVars>>

\* after wait_for_publish returned Ok: `if !dry_run { .. thread::sleep(..) }`
Grace ==
    /\ mode = "wait"
    /\ pc.phase = "grace"
    /\ log' = IF wait_skipped(args.dry_run) THEN log
              ELSE Append(log, Event(Call("grace_sleep", "publish", pkgs[1].id,
                                          "run", 0, <<>>), TRUE))
    /\ status' = Some(0)
    /\ pc' = Done
    /\ UNCHANGED <<mode, sortVars, loadVars, inputVars, pkgs, observed, tree_dirty, disk,
                   waitVars,
                   manifestVars, verbosityVars>>

NextWait ==
    \/ PublishCall
    \/ EnterWait
    \/ Poll
    \/ Sleep
    \/ Grace

SpecWait == InitWait /\ [][NextWait]_vars

\* every step of the iteration is taken: the calls return and the sleeps end
LiveWait == SpecWait /\ WF_vars(NextWait)

(***************************************************************************)
(* Properties of sort_workspace (SpecSort).                                *)
(***************************************************************************)
MemberSet == SeqToSet(workspace_members)

\* the dependency edges between workspace members: <<a, b>> when a depends
\* on b
MemberEdges ==
    {e \in MemberSet \X MemberSet : e[2] \in SeqToSet(resolve[e[1]])}

Positions(s, m) == {i \in DOMAIN s : s[i] = m}

\* A = 1 depends on B = 2 and C = 3, which both depend on D = 4
Diamond == {<<1, 2>>, <<1, 3>>, <<2, 4>>, <<3, 4>>}

\* C1: for every acyclic workspace dependency graph the order returned by
\* sort_workspace holds every workspace member exactly once and after all the
\* workspace members it depends on; in a diamond D appears exactly once and
\* before both B and C.
C1_SortDependenciesFirst ==
    (mode = "sort" /\ sorted # None /\ Acyclic(MemberEdges, MemberSet)) =>
        LET s == Get(sorted)
        IN  /\ SeqToSet(s) = MemberSet
            /\ \A m \in MemberSet : Cardinality(Positions(s, m)) = 1
            /\ \A e \in MemberEdges :
                  \A i \in Positions(s, e[1]), j \in Positions(s, e[2]) : j < i
            /\ (Diamond \subseteq MemberEdges) =>
                  /\ Cardinality(Positions(s, 4)) = 1
                  /\ \A d \in Positions(s, 4), b \in Positions(s, 2),
                        c \in Positions(s, 3) : d < b /\ d < c

\* the diamond, visited from A first, has been sorted
C1_DiamondSorted ==
    /\ mode = "sort"
    /\ sorted # None
    /\ MemberEdges = Diamond
    /\ workspace_members = <<1, 2, 3, 4>>
    /\ Get(sorted) = <<4, 2, 3, 1>>

(***************************************************************************)
(* Properties of TargetVersion::bump and PackageRelease::load (SpecLoad).  *)
(***************************************************************************)
\* the release was not disabled, so that load called bump
LoadedBump == mode = "load" /\ loaded # None /\ ~load_config.disable_release

PlanVersion == Get(Get(loaded).value).version

\* C9: an absolute target equal to the current version yields none, a greater
\* one yields exactly that target, a smaller one fails with
\* UnsupportedVersionReq; a relative level yields the bumped version when the
\* bump policy reports a change and none when it reports no change; bump
\* fails in no other case.
C9_BumpCases ==
    LoadedBump =>
        LET r == Get(loaded)
            cur == current.version
            t == level_or_version
        IN  IF t.kind = "Absolute"
            THEN /\ VersionEq(t.version, cur) =>
                        r.err = "" /\ PlanVersion = None
                 /\ VersionLt(cur, t.version) =>
                        r.err = "" /\ PlanVersion = Some(t.version)
                 /\ VersionLt(t.version, cur) <=> r.err = "UnsupportedVersionReq"
                 /\ r.err \in {"", "UnsupportedVersionReq"}
            ELSE /\ r.err = ""
                 /\ bump_version(t.level, cur).changed =>
                        PlanVersion = Some(bump_version(t.level, cur).version)
                 /\ ~bump_version(t.level, cur).changed => PlanVersion = None

\* an absolute target below the current version was refused
C9_SmallerTargetRefused ==
    /\ LoadedBump
    /\ level_or_version.kind = "Absolute"
    /\ VersionLt(level_or_version.version, current.version)
    /\ Get(loaded).err = "UnsupportedVersionReq"

\* the plan load built, when it built one
HasPlan == mode = "load" /\ loaded # None /\ Get(loaded).err = ""
           /\ Get(loaded).value # None

Plan == Get(Get(loaded).value)

\* C10: in every built release plan post_version, when present, is strictly
\* greater than version (than prev_version when version is absent) and has a
\* non-empty pre-release tag.
C10_PostVersionAhead ==
    (HasPlan /\ Plan.post_version # None) =>
        LET post == Get(Plan.post_version)
            base == IF Plan.version # None THEN Get(Plan.version)
                    ELSE Plan.prev_version
        IN  /\ VersionLt(base, post)
            /\ ~VersionLt(post, base)
            /\ ~VersionEq(post, base)
            /\ post.pre # <<>>

\* a plan without a version whose post_version is taken from a pre-release
\* prev_version
C10_PostVersionOfPrerelease ==
    /\ HasPlan
    /\ Plan.version = None
    /\ Plan.post_version # None
    /\ is_prerelease(Plan.prev_version)

(***************************************************************************)
(* Properties of release_workspace and release_packages (Spec), stated on  *)
(* the calls the run has made so far (log) and the manifests (disk).       *)
(***************************************************************************)
PhaseRank(phase) ==
    CASE phase = "start" -> 0
      [] phase = "preflight" -> 1
      [] phase = "confirm" -> 2
      [] phase = "version" -> 3
      [] phase = "publish" -> 4
      [] phase = "tag" -> 5
      [] phase = "post" -> 6
      [] OTHER -> 7

\* the calls that change a manifest, the lock file, the repository, the
\* remote or the registry
MutatingOps ==
    {"set_package_version", "set_dependency_version", "update_lock", "commit",
     "publish", "tag", "push_tag", "push"}

\* the manifests as cargo metadata read them before the run
InitialDisk ==
    [id \in Packages |-> [version |-> ws.metas[id].version,
                          dependencies |-> ws.metas[id].dependencies]]

\* a call of the given kind was made for the package
Made(op, phase, pkg, exec) ==
    \E x \in DOMAIN log :
        /\ log[x].op = op
        /\ log[x].phase = phase
        /\ log[x].pkg = pkg
        /\ log[x].exec = exec
        /\ log[x].ok

\* every call of the step was made and succeeded
StepDone(step) ==
    \A k \in DOMAIN step.calls :
        \E x \in DOMAIN log : log[x] = Event(step.calls[k], TRUE)

\* a call of the phase or of a later one was made
Started(phase) ==
    \E x \in DOMAIN log : PhaseRank(log[x].phase) >= PhaseRank(phase)

\* C2: when package A of the pipeline's list depends, directly or through
\* other workspace members (selected or not), on package B of the list, B is
\* before A in the list, each loop of the preflight checks B before A and
\* every later phase makes B's calls before A's; B's publish call is before
\* A's.
C2_DependencyProcessedFirst ==
    mode = "release" =>
        LET depends == Reach(MemberEdges, MemberSet)
        IN  /\ \A i, j \in DOMAIN pkgs :
                  <<pkgs[i].id, pkgs[j].id>> \in depends => j < i
            /\ \A x \in DOMAIN log, y \in DOMAIN log :
                  (/\ x <= y
                   /\ log[x].pkg # WsRoot
                   /\ log[y].pkg # WsRoot
                   /\ log[x].phase = log[y].phase
                   /\ log[x].op = log[y].op \/ PhaseRank(log[x].phase) >= 3
                   /\ <<log[x].pkg, log[y].pkg>> \in depends) => y < x

\* 3 depends on 1 only through the unselected member 2, and 1 was published
\* before 3
C2_PublishedThroughUnselected ==
    /\ mode = "release"
    /\ workspace_members = <<3, 2, 1>>
    /\ MemberEdges = {<<3, 2>>, <<2, 1>>}
    /\ ws.selected = <<1, 3>>
    /\ \E x, y \in DOMAIN log :
          /\ x < y
          /\ log[x].op = "publish" /\ log[x].pkg = 1 /\ log[x].exec = "run"
          /\ log[y].op = "publish" /\ log[y].pkg = 3 /\ log[y].exec = "run"

\* whether the version-commit phase (the post-release phase) leaves a shared
\* commit to make
SharedCommitDue ==
    ws_config.consolidate_commits
    /\ \E i \in DOMAIN pkgs : pkgs[i].version # None

SharedPostCommitDue ==
    ws_config.consolidate_commits
    /\ \E i \in DOMAIN pkgs : pkgs[i].post_version # None

\* C3: the calls of a run are made phase by phase, a later phase only after
\* every call of the earlier phases succeeded; a publish call is made only
\* after the version-commit phase finished for every package (the shared
\* commit included), a tag only after every publish succeeded, a post-release
\* bump only after every tag, a push only after the post-release phase (its
\* shared commit included).
C3_PhaseBarriers ==
    mode = "release" =>
        /\ \A x \in 1..(Len(log) - 1) :
              /\ PhaseRank(log[x].phase) <= PhaseRank(log[x + 1].phase)
              /\ log[x].ok
        /\ Started("publish") =>
              /\ \A i \in DOMAIN pkgs :
                    StepDone(version_step(pkgs[i], args.dry_run,
                                          ws_config.consolidate_commits))
              /\ StepDone(shared_commit_step(SharedCommitDue, args.dry_run))
        /\ Started("tag") =>
              \A i \in DOMAIN pkgs : StepDone(publish_step(pkgs[i], args.dry_run))
        /\ Started("post") =>
              \A i \in DOMAIN pkgs : StepDone(tag_step(pkgs[i], args.dry_run))
        /\ Started("push") =>
              /\ \A i \in DOMAIN pkgs :
                    StepDone(post_step(pkgs[i], args.dry_run,
                                       ws_config.consolidate_commits))
              /\ StepDone(shared_post_commit_step(SharedPostCommitDue,
                                                  args.dry_run))

\* a real run of two packages with consolidated commits went through every
\* phase
C3_AllPhasesRan ==
    /\ mode = "release"
    /\ ~args.dry_run
    /\ Len(pkgs) = 2
    /\ status = Some(0)
    /\ Made("commit", "version", WsRoot, "run")
    /\ Made("publish", "publish", 1, "run")
    /\ Made("publish", "publish", 2, "run")
    /\ Made("tag", "tag", 2, "run")
    /\ Made("commit", "post", WsRoot, "run")
    /\ Made("push", "push", 2, "run")

\* C4: in a dry run no manifest version and no dependent requirement is
\* written, the lock file is not refreshed, no commit, publish, tag, tag push
\* or branch push is made; from the version-commit phase on the only call
\* really made is the pre-release hook.
C4_DryRunPerformsNothing ==
    (mode = "release" /\ args.dry_run) =>
        /\ disk = InitialDisk
        /\ \A x \in DOMAIN log :
              /\ log[x].op \in MutatingOps => log[x].exec = "skip"
              /\ (log[x].exec = "run" /\ PhaseRank(log[x].phase) >= 3) =>
                    log[x].op = "hook"

\* a dry run went to its end past the hook, a dependent requirement to fix,
\* a publish, a tag and a push
C4_DryRunCompleted ==
    /\ mode = "release"
    /\ args.dry_run
    /\ status = Some(0)
    /\ Made("hook", "version", 1, "run")
    /\ Made("set_package_version", "version", 1, "skip")
    /\ Made("set_dependency_version", "version", 1, "skip")
    /\ Made("publish", "publish", 1, "skip")
    /\ Made("tag", "tag", 1, "skip")
    /\ Made("push", "push", 1, "skip")

\* C5: a dirty working tree found by the preflight check of a real run ends
\* the run with status 101 before any manifest write, hook, commit, publish,
\* tag or push; status 101 has no other cause; in a dry run the same
\* dirtiness does not end the run, which goes on through the later phases.
C5_DirtyTreeStops ==
    mode = "release" =>
        /\ (tree_dirty /\ ~args.dry_run) =>
              /\ status = Some(101)
              /\ pc = Done
              /\ disk = InitialDisk
              /\ \A x \in DOMAIN log :
                    /\ PhaseRank(log[x].phase) <= 1
                    /\ log[x].op \notin MutatingOps \cup {"hook"}
        /\ status = Some(101) => (tree_dirty /\ ~args.dry_run)
        /\ (tree_dirty /\ args.dry_run /\ status = Some(0)) =>
              \A i \in DOMAIN pkgs :
                  /\ StepDone(version_step(pkgs[i], TRUE,
                                           ws_config.consolidate_commits))
                  /\ StepDone(publish_step(pkgs[i], TRUE))
                  /\ StepDone(tag_step(pkgs[i], TRUE))

\* the second package of a real run in per-package mode was found dirty
C5_DirtyRealRun ==
    /\ mode = "release"
    /\ ~args.dry_run
    /\ ~ws_config.consolidate_commits
    /\ Len(pkgs) = 2
    /\ tree_dirty
    /\ status = Some(101)
    /\ Made("is_dirty", "preflight", pkgs[2].id, "run")

\* C6 (as the specification states it): a package whose plan has no version
\* causes no commit, no tag and no publish call in any phase.
C6_NoVersionNoRelease ==
    mode = "release" =>
        \A i \in DOMAIN pkgs :
            pkgs[i].version = None =>
                \A x \in DOMAIN log :
                    (log[x].pkg = pkgs[i].id /\ log[x].exec = "run") =>
                        log[x].op \notin {"commit", "tag", "publish"}

\* the statuses of the aborts of release_packages after the preflight
AbortStatuses == 102..107

\* C7: a call that fails is the last call of the run: the run is over with a
\* non-zero status, no call for a later package or of a later phase follows,
\* and the manifests keep what the earlier calls wrote.
C7_AbortEndsRun ==
    mode = "release" =>
        /\ \A x \in DOMAIN log :
              (~log[x].ok /\ log[x].op # "confirm") =>
                  /\ x = Len(log)
                  /\ pc = Done
                  /\ status # None
                  /\ Get(status) # 0
        /\ (status # None /\ Get(status) \in AbortStatuses) =>
              /\ pc = Done
              /\ log # <<>>
              /\ ~log[Len(log)].ok
        /\ \A id \in Packages :
              LET writes == {x \in DOMAIN log :
                                /\ log[x].op = "set_package_version"
                                /\ log[x].pkg = id
                                /\ log[x].exec = "run"
                                /\ log[x].ok}
              IN  disk[id].version =
                      IF writes = {} THEN InitialDisk[id].version
                      ELSE log[CHOOSE x \in writes :
                                   \A y \in writes : y <= x].arg[1]

\* the tag of the first of two packages failed after both were committed and
\* published: the second is not tagged and the new versions stay written
C7_TagFailed ==
    /\ mode = "release"
    /\ Len(pkgs) = 2
    /\ status = Some(104)
    /\ log[Len(log)].op = "tag"
    /\ log[Len(log)].pkg = pkgs[1].id
    /\ Made("publish", "publish", pkgs[2].id, "run")
    /\ Made("commit", "version", pkgs[2].id, "run")
    /\ disk[pkgs[2].id].version # InitialDisk[pkgs[2].id].version

\* C8 (as the specification states it): the status of an abort names the
\* call that failed, in per-package and in consolidated commit mode alike:
\* 102 the version commit, 103 publish, 104 tag, 105 the post-release commit,
\* 106 push, 107 the pre-release hook.
C8_StatusNamesPhase ==
    (mode = "release" /\ status # None /\ Get(status) \in AbortStatuses) =>
        LET e == log[Len(log)]
        IN  Get(status) =
                CASE e.op = "commit" /\ e.phase = "version" -> 102
                  [] e.op = "publish" -> 103
                  [] e.op = "tag" -> 104
                  [] e.op = "commit" /\ e.phase = "post" -> 105
                  [] e.op \in {"push", "push_tag"} -> 106
                  [] e.op = "hook" -> 107
                  [] OTHER -> 0

(***************************************************************************)
(* More properties of PackageRelease::load (SpecLoad).                     *)
(***************************************************************************)
\* C11 (as the specification states it): a plan has no post_version when the
\* version it releases (version, or prev_version when version is absent) is a
\* pre-release.
C11_NoPostVersionForPrerelease ==
    HasPlan =>
        LET base == IF Plan.version # None THEN Get(Plan.version)
                    ELSE Plan.prev_version
        IN  is_prerelease(base) => Plan.post_version = None

(***************************************************************************)
(* Properties of update_dependent_versions (SpecDeps).                     *)
(***************************************************************************)
\* update_dependent_versions has returned
DepsDone == mode = "deps" /\ pc = Done

Policy == pkgs[1].config.dependent_version

NewVersion == Get(pkgs[1].version)

Dependents == pkgs[1].dependents

IsWarn(e) == e.op = "warn"

IsWrite(e) == e.op = "set_dependency_version"

Mismatches(dep) == ~matches(dep.req, NewVersion)

\* C12: under the Error policy a warning is logged for every dependent whose
\* requirement does not match the new version, in the order of the
\* dependents and not only for the first, and the call fails (with the one
\* DependencyVersionConflict) exactly when there is such a dependent.
C12_ErrorPolicyAggregates ==
    (DepsDone /\ Policy = "Error") =>
        LET warned == SelectSeq(log, IsWarn)
            bad == SelectSeq(Dependents, Mismatches)
        IN  /\ Len(warned) = Len(bad)
            /\ \A k \in DOMAIN warned : warned[k].arg = <<bad[k].pkg>>
            /\ status = Some(FatalStatus) <=> bad # <<>>
            /\ status = Some(0) <=> bad = <<>>

\* both of two dependents mismatch, both are warned about, then the call
\* fails
C12_TwoMismatchesWarned ==
    /\ DepsDone
    /\ Policy = "Error"
    /\ Len(Dependents) = 2
    /\ \A i \in 1..2 : Mismatches(Dependents[i])
    /\ Len(SelectSeq(log, IsWarn)) = 2
    /\ status = Some(FatalStatus)

\* C13: under Ignore, Warn and Error no dependent's manifest is written,
\* whether its requirement matches or not; under Ignore and Warn the call
\* never fails.
C13_NoWritePolicies ==
    (DepsDone /\ Policy \in {"Ignore", "Warn", "Error"}) =>
        /\ disk = InitialDisk
        /\ SelectSeq(log, IsWrite) = <<>>
        /\ Policy \in {"Ignore", "Warn"} => status = Some(0)

\* a real run under Warn with a mismatching dependent: warned, not failed
C13_WarnedOnly ==
    /\ DepsDone
    /\ Policy = "Warn"
    /\ ~args.dry_run
    /\ Len(Dependents) = 2
    /\ Mismatches(Dependents[2])
    /\ Len(SelectSeq(log, IsWarn)) >= 1
    /\ status = Some(0)

\* whether the policy produces a corrected requirement for the dependent
RequirementDue(dep) ==
    /\ Policy = "Upgrade" \/ (Policy = "Fix" /\ Mismatches(dep))
    /\ set_requirement(dep.req, NewVersion) # None

\* C14: under Fix the requirement of a dependent is written back only when
\* it does not match the new version, under Upgrade for every dependent; in
\* both only when a corrected requirement was produced, and the manifest is
\* really written only when dry-run is false.
C14_FixAndUpgradeWrites ==
    (DepsDone /\ Policy \in {"Fix", "Upgrade"}) =>
        LET writes == SelectSeq(log, IsWrite)
            due == SelectSeq(Dependents, RequirementDue)
        IN  /\ Len(writes) <= Len(due)
            /\ status = Some(0) => Len(writes) = Len(due)
            /\ \A k \in DOMAIN writes :
                  /\ writes[k].arg =
                         <<due[k].pkg, Get(set_requirement(due[k].req, NewVersion))>>
                  /\ writes[k].exec = IF args.dry_run THEN "skip" ELSE "run"
            /\ args.dry_run => (disk = InitialDisk /\ status = Some(0))
            /\ (~args.dry_run /\ status = Some(0)) =>
                  \A i \in DOMAIN Dependents :
                      disk[Dependents[i].pkg].dependencies[1].req =
                          IF RequirementDue(Dependents[i])
                          THEN Get(set_requirement(Dependents[i].req, NewVersion))
                          ELSE Dependents[i].req

\* a real run under Upgrade rewrote a requirement that already matched
C14_UpgradedMatching ==
    /\ DepsDone
    /\ Policy = "Upgrade"
    /\ ~args.dry_run
    /\ status = Some(0)
    /\ Len(Dependents) = 1
    /\ ~Mismatches(Dependents[1])
    /\ disk[2].dependencies[1].req # InitialDisk[2].dependencies[1].req

(***************************************************************************)
(* More properties of release_workspace and release_packages (Spec).       *)
(***************************************************************************)
\* the plan of the package in the pipeline's list
PlanOf(id) == pkgs[CHOOSE i \in DOMAIN pkgs : pkgs[i].id = id]

Planned(id) == \E i \in DOMAIN pkgs : pkgs[i].id = id

\* the run ended in the DependencyVersionConflict of the package's step: the
\* warning about its last mismatching dependent is the last thing it did
ConflictOn(id) ==
    /\ status = Some(FatalStatus)
    /\ log # <<>>
    /\ log[Len(log)].op = "warn"
    /\ log[Len(log)].pkg = id
    /\ PlanOf(id).config.dependent_version = "Error"

\* C15 (as the specification states it): under the Error policy a dependent
\* version conflict on a package is only raised before the package is
\* published; no run makes the publish call of P and fails afterwards with
\* the conflict on P's dependents.
C15_ConflictOnlyBeforePublish ==
    mode = "release" =>
        \A i \in DOMAIN pkgs :
            ConflictOn(pkgs[i].id) =>
                ~\E x \in DOMAIN log :
                    /\ log[x].op = "publish"
                    /\ log[x].pkg = pkgs[i].id
                    /\ log[x].exec = "run"

\* the package has a pending release and a pre-release hook
Hooked(id) ==
    /\ Planned(id)
    /\ PlanOf(id).version # None
    /\ PlanOf(id).config.pre_release_hook

\* C16: the pre-release hook of a package with a pending release is really
\* executed, in dry runs and real runs alike, right after the lock refresh
\* and the text substitutions of the package; when it returns non-zero the run ends with status 107, no
\* commit was made for that package and no publish, tag, post-release bump
\* or push for any package.
C16_HookAlwaysRunsAndVetoes ==
    mode = "release" =>
        /\ \A x \in DOMAIN log :
              /\ log[x].op = "hook" =>
                    log[x].exec = "run" /\ Hooked(log[x].pkg)
              /\ (/\ log[x].op \in {"update_lock", "replace"}
                  /\ log[x].phase = "version"
                  /\ log[x].ok
                  /\ Hooked(log[x].pkg)) =>
                    /\ x < Len(log)
                    /\ log[x + 1].pkg = log[x].pkg
                    /\ \/ log[x + 1].op = "hook" /\ log[x + 1].exec = "run"
                       \/ /\ log[x].op = "update_lock"
                          /\ log[x + 1].op = "replace"
                          /\ PlanOf(log[x].pkg).config.pre_release_replacements
        /\ Started("publish") =>
              \A i \in DOMAIN pkgs :
                  Hooked(pkgs[i].id) => Made("hook", "version", pkgs[i].id, "run")
        /\ status = Some(107) =>
              LET e == log[Len(log)]
              IN  /\ e.op = "hook" /\ ~e.ok
                  /\ pc = Done
                  /\ ~Started("publish")
                  /\ \A x \in DOMAIN log :
                        ~(log[x].op = "commit" /\ log[x].pkg \in {e.pkg, WsRoot})

\* the hook of the second package vetoed a dry run
C16_HookVetoedDryRun ==
    /\ mode = "release"
    /\ args.dry_run
    /\ status = Some(107)
    /\ Len(pkgs) = 2
    /\ log[Len(log)].pkg = pkgs[2].id
    /\ Made("commit", "version", pkgs[1].id, "skip")

IsConfirm(e) == e.op = "confirm"

\* C17: the confirmation is asked exactly in the runs that are neither dry
\* nor started with no_confirm, once, after the preflight and before the
\* first call of the later phases; when the user declines, the run ends with
\* status 0 and no manifest write, hook, commit, publish, tag or push was or
\* is made.
C17_ConfirmationGate ==
    mode = "release" =>
        /\ Len(SelectSeq(log, IsConfirm)) <= 1
        /\ (args.dry_run \/ args.no_confirm) => SelectSeq(log, IsConfirm) = <<>>
        /\ \A x \in DOMAIN log :
              IF IsConfirm(log[x])
              THEN /\ \A y \in 1..(x - 1) : PhaseRank(log[y].phase) <= 1
                   /\ \A y \in (x + 1)..Len(log) : PhaseRank(log[y].phase) >= 3
                   /\ ~log[x].ok =>
                         /\ x = Len(log)
                         /\ status = Some(0)
                         /\ pc = Done
                         /\ disk = InitialDisk
              ELSE (/\ PhaseRank(log[x].phase) >= 3
                    /\ ~args.dry_run
                    /\ ~args.no_confirm) =>
                       \E y \in 1..(x - 1) : IsConfirm(log[y]) /\ log[y].ok
        /\ (pc.phase \notin {"start", "preflight", "confirm", "done"}
            /\ ~args.dry_run /\ ~args.no_confirm) =>
              \E y \in DOMAIN log : IsConfirm(log[y]) /\ log[y].ok

\* the user declined the release of two packages
C17_Declined ==
    /\ mode = "release"
    /\ Len(pkgs) = 2
    /\ status = Some(0)
    /\ log # <<>>
    /\ IsConfirm(log[Len(log)])
    /\ ~log[Len(log)].ok

\* the steps of release_packages after the confirmation, in the order the
\* code goes through them for the plans
PipelineSteps(plans, dry_run) ==
    LET consolidate == ws_config.consolidate_commits
        shared == consolidate /\ \E i \in DOMAIN plans : plans[i].version # None
        shared_post ==
            consolidate /\ \E i \in DOMAIN plans : plans[i].post_version # None
    IN  [i \in DOMAIN plans |-> version_step(plans[i], dry_run, consolidate)]
        \o <<shared_commit_step(shared, dry_run)>>
        \o [i \in DOMAIN plans |-> publish_step(plans[i], dry_run)]
        \o [i \in DOMAIN plans |-> tag_step(plans[i], dry_run)]
        \o [i \in DOMAIN plans |-> post_step(plans[i], dry_run, consolidate)]
        \o <<shared_post_commit_step(shared_post, dry_run)>>
        \o (IF ws_config.disable_push THEN <<>>
            ELSE [i \in DOMAIN plans |->
                     push_step(plans[i], dry_run, ws_config.consolidate_pushes)]
                 \o <<shared_push_step(ws_config.consolidate_pushes, dry_run)>>)

RECURSIVE CallsOf(_)
\* the calls of the steps when every call succeeds: a step that ends in the
\* dependency version conflict is the last
CallsOf(steps) ==
    IF steps = <<>> THEN <<>>
    ELSE Head(steps).calls
         \o (IF Head(steps).conflict THEN <<>> ELSE CallsOf(Tail(steps)))

HasConflict(steps) == \E k \in DOMAIN steps : steps[k].conflict

NotWait(c) == c.op # "wait_for_publish"

AfterConfirm(e) == PhaseRank(e.phase) >= 3

\* the phase actions of a sequence of calls or events, without the wait for
\* the registry index: what is done, for which package, with which argument
PhaseActions(calls) ==
    LET kept == SelectSeq(calls, NotWait)
    IN  [k \in DOMAIN kept |->
            [op |-> kept[k].op, phase |-> kept[k].phase, pkg |-> kept[k].pkg,
             arg |-> kept[k].arg]]

\* C18: when every call succeeds and the user confirms, the phase actions of
\* the run are, in the same order, the phase actions the other mode goes
\* through for the same plans and configuration: a dry run announces what a
\* real run executes; only the wait for the registry index is set aside.
C18_DryRunPreviewsRealRun ==
    (/\ mode = "release"
     /\ status = Some(0)
     /\ log # <<>>
     /\ \A x \in DOMAIN log : log[x].ok) =>
        LET made == SelectSeq(log, AfterConfirm)
        IN  /\ PhaseActions(made) =
                   PhaseActions(CallsOf(PipelineSteps(pkgs, ~args.dry_run)))
            /\ \A k \in DOMAIN made :
                  made[k].exec =
                      IF made[k].op = "warn" THEN "log"
                      ELSE IF args.dry_run /\ made[k].op # "hook" THEN "skip"
                      ELSE "run"

\* a real run of two packages with a shared commit and a hook went through
\* every phase
C18_RealRunCompleted ==
    /\ mode = "release"
    /\ ~args.dry_run
    /\ status = Some(0)
    /\ Len(pkgs) = 2
    /\ \A x \in DOMAIN log : log[x].ok
    /\ Made("set_dependency_version", "version", pkgs[1].id, "run")
    /\ Made("wait_for_publish", "publish", pkgs[2].id, "run")
    /\ Made("push", "push", pkgs[2].id, "run")

\* C19: a dry run never returns 101, 102, 103, 104, 105 or 106: it returns
\* 0, or 107 when the pre-release hook vetoes, or ends in a fatal error.
C19_DryRunStatuses ==
    (mode = "release" /\ args.dry_run /\ status # None) =>
        /\ Get(status) \in {0, 107, FatalStatus}
        /\ Get(status) = 107 =>
              (log[Len(log)].op = "hook" /\ ~log[Len(log)].ok)
        /\ Get(status) = 0 => \A x \in DOMAIN log : log[x].ok

\* a dry run on a dirty tree with consolidated commits went to its end
C19_DirtyDryRunCompleted ==
    /\ mode = "release"
    /\ args.dry_run
    /\ tree_dirty
    /\ ws_config.consolidate_commits
    /\ Len(pkgs) = 2
    /\ status = Some(0)
    /\ Made("commit", "post", WsRoot, "skip")
    /\ Made("push", "push", pkgs[2].id, "skip")

\* the plans as release_workspace builds them from the workspace, the
\* selection and the requested version
ExpectedPlans ==
    filter_plans(sort_workspace(workspace_members, resolve), ws.selected,
                 load_selected(ws, workspace_members, level_or_version))

\* every call of a dry run over the plans, from git::top_level on
ExpectedDryRunCalls(plans) ==
    <<Call("top_level", "start", WsRoot, "run", 0, <<>>)>>
    \o preflight_dirty_calls(ws_config.consolidate_commits, plans)
    \o preflight_rest_calls(plans)
    \o CallsOf(PipelineSteps(plans, TRUE))

C21_PushedTagsWereCreated ==
    mode = "release" =>
        \A y \in DOMAIN log :
            log[y].op = "push_tag" =>
                \E x \in 1..(y - 1) :
                    /\ log[x].op = "tag"
                    /\ log[x].phase = "tag"
                    /\ log[x].pkg = log[y].pkg
                    /\ log[x].arg = log[y].arg
                    /\ log[x].exec = log[y].exec
                    /\ log[x].ok

\* a real run pushed the tags of two packages, the first of them unpublished
C21_TwoTagsPushed ==
    /\ mode = "release"
    /\ ~args.dry_run
    /\ Len(pkgs) = 2
    /\ pkgs[1].config.disable_publish
    /\ Made("push_tag", "push", pkgs[1].id, "run")
    /\ Made("push_tag", "push", pkgs[2].id, "run")

\* the events of the log that push something
IsPush(e) == e.op \in {"push_tag", "push"}

IsHeadPush(e) == e.op = "push"

\* the run went through release_packages to its end
Completed ==
    /\ pc = Done
    /\ status = Some(0)
    /\ log # <<>>
    /\ \A x \in DOMAIN log : log[x].ok

\* the positions of the log where HEAD is pushed for `id`
HeadPushes(id) == {x \in DOMAIN log : IsHeadPush(log[x]) /\ log[x].pkg = id}

\* C22: when the workspace disables push nothing is pushed.  Otherwise, with
\* consolidated pushes HEAD is pushed for the workspace only, after all tag
\* pushes, and exactly once in a completed run; without them HEAD is pushed
\* for packages only, directly after the package's tag push, never for a
\* package that disabled push, and exactly once for every other package in a
\* completed run.  A push that returns false gives the status 106.
C22_PushRules ==
    mode = "release" =>
        /\ ws_config.disable_push => \A x \in DOMAIN log : ~IsPush(log[x])
        /\ \A x \in DOMAIN log :
              (IsPush(log[x]) /\ log[x].pkg # WsRoot) =>
                  /\ Planned(log[x].pkg)
                  /\ ~PlanOf(log[x].pkg).config.disable_push
        /\ IF ws_config.consolidate_pushes
           THEN /\ \A x \in DOMAIN log :
                      IsHeadPush(log[x]) => (log[x].pkg = WsRoot /\ x = Len(log))
                /\ (Completed /\ ~ws_config.disable_push) =>
                      Cardinality(HeadPushes(WsRoot)) = 1
           ELSE /\ HeadPushes(WsRoot) = {}
                /\ \A x \in DOMAIN log :
                      (IsHeadPush(log[x]) /\ PlanOf(log[x].pkg).tag # None) =>
                          /\ x > 1
                          /\ log[x - 1].op = "push_tag"
                          /\ log[x - 1].pkg = log[x].pkg
                /\ \A i \in DOMAIN pkgs :
                      Cardinality(HeadPushes(pkgs[i].id)) <= 1
                /\ (Completed /\ ~ws_config.disable_push) =>
                      \A i \in DOMAIN pkgs :
                          ~pkgs[i].config.disable_push =>
                              Cardinality(HeadPushes(pkgs[i].id)) = 1
        /\ \A x \in DOMAIN log :
              (IsPush(log[x]) /\ ~log[x].ok) =>
                  status \in {Some(106), Some(FatalStatus)}
        /\ pc.phase \in {"push", "shared_push"} =>
              LET step == IF pc.phase = "push"
                          THEN push_step(pkgs[pc.idx], args.dry_run,
                                         ws_config.consolidate_pushes)
                          ELSE shared_push_step(ws_config.consolidate_pushes,
                                                args.dry_run)
              IN  \A k \in DOMAIN step.calls :
                      "false" \in Failures(step.calls[k]) =>
                          run_step(step, [k |-> k, res |-> "false"],
                                   disk).status = Some(106)

\* a completed real run of two packages pushed HEAD for the second only: the
\* first disabled push
C22_PushedForOneOfTwo ==
    /\ mode = "release"
    /\ ~args.dry_run
    /\ Completed
    /\ Len(pkgs) = 2
    /\ pkgs[1].config.disable_push
    /\ Made("push", "push", pkgs[2].id, "run")
    /\ Made("tag", "tag", pkgs[1].id, "run")

\* the positions of the log where the phase commits for `id`
Commits(phase, id) ==
    {x \in DOMAIN log :
        log[x].op = "commit" /\ log[x].phase = phase /\ log[x].pkg = id}

\* the package has something to commit in the phase
Pending(pkg, phase) ==
    IF phase = "version" THEN pkg.version # None ELSE pkg.post_version # None

\* the run has left the phase behind
PhaseOver(phase) ==
    \/ Completed
    \/ \E x \in DOMAIN log : PhaseRank(log[x].phase) > PhaseRank(phase)

\* C23: in consolidated-commit mode the version-commit phase makes no commit
\* for a package and, when a package has a pending release, one shared commit
\* after every call of the phase, none when no package has; in per-package
\* mode it makes no shared commit and one commit for each package with a
\* pending release, right after that package's calls.  The post-release phase
\* does the same over the packages with a post-release version.
C23_CommitRules ==
    mode = "release" =>
        \A phase \in {"version", "post"} :
            IF ws_config.consolidate_commits
            THEN /\ \A i \in DOMAIN pkgs : Commits(phase, pkgs[i].id) = {}
                 /\ Cardinality(Commits(phase, WsRoot)) <= 1
                 /\ \A x \in Commits(phase, WsRoot) :
                       /\ \E i \in DOMAIN pkgs : Pending(pkgs[i], phase)
                       /\ \A y \in DOMAIN log : log[y].phase = phase => y <= x
                 /\ PhaseOver(phase) =>
                       (Commits(phase, WsRoot) # {}
                            <=> \E i \in DOMAIN pkgs : Pending(pkgs[i], phase))
            ELSE /\ Commits(phase, WsRoot) = {}
                 /\ \A i \in DOMAIN pkgs :
                       /\ Cardinality(Commits(phase, pkgs[i].id)) <= 1
                       /\ \A x \in Commits(phase, pkgs[i].id) :
                             /\ Pending(pkgs[i], phase)
                             /\ x > 1
                             /\ log[x - 1].phase = phase
                             /\ log[x - 1].pkg = pkgs[i].id
                             /\ log[x - 1].op # "commit"
                       /\ PhaseOver(phase) =>
                             (Commits(phase, pkgs[i].id) # {}
                                  <=> Pending(pkgs[i], phase))

\* a completed real run in consolidated mode made the two shared commits for
\* two packages, one of them without a post-release version
C23_SharedCommitsMade ==
    /\ mode = "release"
    /\ ~args.dry_run
    /\ ws_config.consolidate_commits
    /\ Completed
    /\ Len(pkgs) = 2
    /\ pkgs[1].post_version = None
    /\ pkgs[2].post_version # None
    /\ Made("commit", "version", WsRoot, "run")
    /\ Made("commit", "post", WsRoot, "run")

(***************************************************************************)
(* Properties of STEP 3 and cargo::wait_for_publish (SpecWait, LiveWait).  *)
(***************************************************************************)
\* cargo::publish was called or announced and returned true
PublishedOk == \E x \in DOMAIN log : log[x].op = "publish" /\ log[x].ok

GraceSlept == \E x \in DOMAIN log : log[x].op = "grace_sleep"

\* the package is published to crates.io: `pkg.config.registry().is_none()`
DefaultRegistry == ~pkgs[1].config.registry

LastPoll == polls[Len(polls)]

\* C24: the registry index is polled, and the grace sleep made, only after a
\* successful publish call to the default registry in a real run; such a
\* run always polls, and sleeps the grace time when a poll found the
\* version; after a publish to another registry or in a dry run the
\* iteration ends with neither.
C24_WaitOnlyForDefaultRegistry ==
    mode = "wait" =>
        /\ (polls # <<>> \/ GraceSlept \/ elapsed # 0) =>
              (PublishedOk /\ DefaultRegistry /\ ~args.dry_run)
        /\ (pc = Done /\ PublishedOk /\ DefaultRegistry /\ ~args.dry_run) =>
              /\ polls # <<>>
              /\ GraceSlept <=> LastPoll.published
        /\ (pc = Done /\ PublishedOk /\ (~DefaultRegistry \/ args.dry_run)) =>
              status = Some(0)

\* a real run polled the index twice and slept the grace time
C24_PolledTwiceThenGrace ==
    /\ mode = "wait"
    /\ ~args.dry_run
    /\ DefaultRegistry
    /\ pc = Done
    /\ status = Some(0)
    /\ Len(polls) = 2
    /\ GraceSlept

\* C25: the iteration ends with a status.  The poll loop goes on only after
\* a poll that did not find the version and read a clock not beyond the
\* timeout; it ends with success at the first poll that finds the version
\* and with PublishTimeoutError (status 128) at the first poll that does not
\* find it and reads a clock beyond the timeout; nothing else ends it.
C25_PollLoopEnds ==
    /\ <>(status # None)
    /\ [](mode = "wait" =>
            /\ \A k \in 1..(Len(polls) - 1) :
                  ~polls[k].published /\ ~(timeout < polls[k].at)
            /\ polls # <<>> =>
                  /\ pc.phase \in {"sleep", "poll"} =>
                        (~LastPoll.published /\ ~(timeout < LastPoll.at))
                  /\ (pc.phase = "grace" \/ status = Some(0)) =>
                        LastPoll.published
                  /\ status # None => status \in {Some(0), Some(FatalStatus)}
                  /\ status = Some(FatalStatus) =>
                        (~LastPoll.published /\ timeout < LastPoll.at)
                  /\ pc.phase \in {"poll", "sleep", "grace", "done"}
                  /\ pc = Done => status # None)

\* the wait timed out at its third poll
C25_TimedOutAtThirdPoll ==
    /\ mode = "wait"
    /\ status = Some(FatalStatus)
    /\ Len(polls) = 3
    /\ timeout = MaxTimeout

(***************************************************************************)
(* Properties of release_workspace and release_packages (Spec), continued. *)
(***************************************************************************)
\* release_workspace has handed the plans to release_packages
Built == mode = "release" /\ (pc.phase = "preflight" \/ Len(log) >= 2)

\* the selected packages that configuration does not exclude from the release
Wanted ==
    {id \in SeqToSet(ws.selected) :
        ~release_config(ws.metas[id], ws.configs[id]).disable_release}

\* C26: the plans handed to the pipeline are the selected packages that
\* configuration does not exclude from the release, each once, in the order
\* sort_workspace gives to the whole workspace; a package excluded by
\* configuration is left out without failing the run: a run that fails while
\* the plans are built fails on a package that is not excluded.
C26_PlansAreSelectedInOrder ==
    /\ Built =>
          LET order == sort_workspace(workspace_members, resolve)
          IN  /\ {pkgs[i].id : i \in DOMAIN pkgs} = Wanted
              /\ \A i, j \in DOMAIN pkgs :
                    i < j =>
                        \E a, b \in DOMAIN order :
                            /\ a < b
                            /\ order[a] = pkgs[i].id
                            /\ order[b] = pkgs[j].id
    /\ (mode = "release" /\ pc = Done /\ Len(log) = 1 /\ log[1].ok) =>
          \E id \in Wanted :
              bump(level_or_version, ws.metas[id].version).err # ""

\* the first of two selected packages is excluded by configuration and the
\* run released the second
C26_DisabledPackageSkipped ==
    /\ mode = "release"
    /\ Completed
    /\ ~args.dry_run
    /\ ws.selected = <<1, 2>>
    /\ ws.configs[1].disable_release
    /\ Len(pkgs) = 1
    /\ Made("publish", "publish", 2, "run")

\* C27: a package whose manifest declares publish = false is never
\* published, and its publication never waited for, whatever the
\* configuration of the package says: no publish call is made or announced
\* for it.
C27_PublishFalseNeverPublished ==
    mode = "release" =>
        /\ \A x \in DOMAIN log :
              log[x].op \in {"publish", "wait_for_publish"} =>
                  ws.metas[log[x].pkg].publish
        /\ \A i \in DOMAIN pkgs :
              ~ws.metas[pkgs[i].id].publish => pkgs[i].config.disable_publish

\* the manifest of the first of two packages declares publish = false, its
\* configuration leaves publishing on, and the run released both
C27_PublishFalseReleased ==
    /\ mode = "release"
    /\ Completed
    /\ ~args.dry_run
    /\ Len(pkgs) = 2
    /\ ~ws.metas[pkgs[1].id].publish
    /\ ~ws.configs[pkgs[1].id].disable_publish
    /\ Made("tag", "tag", pkgs[1].id, "run")
    /\ Made("publish", "publish", pkgs[2].id, "run")

(***************************************************************************)
(* Properties of the pipeline over every repository (SpecObserve).         *)
(***************************************************************************)
NotWarn(e) == e.op # "warn"

\* the plans with nothing for the Warn policy to warn about
Silent(plans) ==
    [i \in DOMAIN plans |->
        IF plans[i].config.dependent_version = "Warn"
        THEN [plans[i] EXCEPT !.dependents = <<>>]
        ELSE plans[i]]

\* every call of a run over the plans when each call succeeds and the user
\* confirms; `stop` tells whether the run is a real one on a dirty tree
ExpectedCalls(plans, dry_run, no_confirm, stop) ==
    <<Call("top_level", "start", WsRoot, "run", 0, <<>>)>>
    \o preflight_dirty_calls(ws_config.consolidate_commits, plans)
    \o (IF stop THEN <<>>
        ELSE preflight_rest_calls(plans)
             \o (IF confirm_required(dry_run, no_confirm)
                 THEN <<Call("confirm", "confirm", WsRoot, "run", 0, <<>>)>>
                 ELSE <<>>)
             \o CallsOf(PipelineSteps(plans, dry_run)))

\* C28: what STEP 0 finds after the dirty check (a missing previous tag, no
\* file or the lock file alone changed since it, a detached HEAD, a branch
\* behind the remote) and a dependent mismatch under the Warn policy never
\* change what the run does: whatever is found, the calls of the run other
\* than the warnings are the calls of a run over a quiet repository with
\* nothing to warn about, in that order, up to the first call that fails,
\* and the status follows from them alone.
C28_ObservationsOnlyLog ==
    Built =>
        LET stop == tree_dirty /\ ~args.dry_run
            quiet == Silent(pkgs)
            expected == SelectSeq(ExpectedCalls(quiet, args.dry_run,
                                                args.no_confirm, stop), NotWarn)
            made == SelectSeq(log, NotWarn)
            last == Len(made)
        IN  /\ last <= Len(expected)
            /\ \A x \in DOMAIN made : made[x] = Event(expected[x], made[x].ok)
            /\ \A x \in 1..(last - 1) : made[x].ok
            /\ pc = Done =>
                  IF made[last].ok
                  THEN /\ last = Len(expected)
                       /\ status =
                              Some(IF stop THEN 101
                                   ELSE IF HasConflict(PipelineSteps(quiet,
                                                                     args.dry_run))
                                   THEN FatalStatus
                                   ELSE 0)
                  ELSE status \in {Some(expected[last].abort), Some(FatalStatus)}
                       /\ (status = Some(0) => made[last].op = "confirm")

\* a real run of two packages completed although the previous tag of one was
\* missing, only the lock file of the other had changed, HEAD was detached
\* and behind the remote, and the dependent's requirement did not match
C28_WarnedAndCompleted ==
    /\ mode = "release"
    /\ ~args.dry_run
    /\ Completed
    /\ Len(pkgs) = 2
    /\ observed # None
    /\ Get(observed).seen.changed[1] = "missing_tag"
    /\ Get(observed).seen.changed[2] = "lock_only"
    /\ {w.kind : w \in Get(observed).warned} = {"no_changes", "detached", "behind"}
    /\ \E x \in DOMAIN log : log[x].op = "warn" /\ log[x].phase = "version"
    /\ Made("push", "push", pkgs[2].id, "run")

(***************************************************************************)
(* Properties of release_workspace and release_packages (Spec), continued. *)
(***************************************************************************)
IsOk(e) == e.ok

\* the calls that can only succeed or raise an error
ErrorOnlyOps ==
    {"top_level", "git_version", "is_dirty", "changed_files", "fetch",
     "set_package_version", "set_dependency_version", "update_lock",
     "wait_for_publish"}

\* the step release_packages is about to make
CurrentStep ==
    CASE pc.phase = "version" ->
            version_step(pkgs[pc.idx], args.dry_run, ws_config.consolidate_commits)
      [] pc.phase = "shared_commit" ->
            shared_commit_step(pc.shared_commit, args.dry_run)
      [] pc.phase = "publish" -> publish_step(pkgs[pc.idx], args.dry_run)
      [] pc.phase = "tag" -> tag_step(pkgs[pc.idx], args.dry_run)
      [] pc.phase = "post" ->
            post_step(pkgs[pc.idx], args.dry_run, ws_config.consolidate_commits)
      [] pc.phase = "shared_post_commit" ->
            shared_post_commit_step(pc.shared_commit, args.dry_run)
      [] pc.phase = "push" ->
            push_step(pkgs[pc.idx], args.dry_run, ws_config.consolidate_pushes)
      [] pc.phase = "shared_push" ->
            shared_push_step(ws_config.consolidate_pushes, args.dry_run)
      [] OTHER -> Step(<<>>, FALSE)

\* C29: a fatal error ends the run at once with status 128.  A call that
\* fails is the last call of the run; a failed call of a kind that can only
\* raise an error gives 128; an error raised by any call of the step at hand,
\* or the dependent-version conflict the step ends in, gives 128 with no
\* later call of the step made; and the manifests always hold the effects of
\* every call that succeeded, before and after the failure: nothing is put
\* back.
C29_FatalEndsRun ==
    mode = "release" =>
        /\ disk = apply_calls(InitialDisk, SelectSeq(log, IsOk))
        /\ \A x \in DOMAIN log :
              ~log[x].ok =>
                  /\ x = Len(log)
                  /\ pc = Done
                  /\ log[x].op \in ErrorOnlyOps => status = Some(FatalStatus)
        /\ status = Some(FatalStatus) => pc = Done
        /\ LET step == CurrentStep
           IN  /\ \A k \in DOMAIN step.calls :
                     "fatal" \in Failures(step.calls[k]) =>
                         LET r == run_step(step, [k |-> k, res |-> "fatal"], disk)
                         IN  /\ r.status = Some(FatalStatus)
                             /\ Len(r.events) = k
                             /\ r.disk = apply_calls(disk,
                                                     SubSeq(step.calls, 1, k - 1))
               /\ step.conflict =>
                     run_step(step, [k |-> 0, res |-> "ok"], disk).status
                         = Some(FatalStatus)

\* the lock file could not be refreshed after the post-release version of a
\* published package was written: the run ended with 128 and the manifest
\* keeps the written version
C29_FailedAfterPublish ==
    /\ mode = "release"
    /\ status = Some(FatalStatus)
    /\ log # <<>>
    /\ ~log[Len(log)].ok
    /\ log[Len(log)].op = "update_lock"
    /\ log[Len(log)].phase = "post"
    /\ Made("publish", "publish", log[Len(log)].pkg, "run")
    /\ disk[log[Len(log)].pkg].version
           = Get(PlanOf(log[Len(log)].pkg).post_version)

\* the calls a phase makes once for a package
OncePerPackage == {"publish", "tag", "push_tag", "set_package_version"}

\* C30: no package is acted on twice by the same phase in one run: the list
\* of plans holds a package once; a package is published at most once, its
\* tag created at most once and pushed at most once, its manifest version
\* written at most once in the version-commit phase and at most once in the
\* post-release phase; and no call of a phase follows a call of a later
\* phase.
C30_SinglePass ==
    mode = "release" =>
        /\ \A i, j \in DOMAIN pkgs : pkgs[i].id = pkgs[j].id => i = j
        /\ \A x \in DOMAIN log :
              log[x].op \in OncePerPackage =>
                  \A y \in (x + 1)..Len(log) :
                      ~(/\ log[y].op = log[x].op
                        /\ log[y].phase = log[x].phase
                        /\ log[y].pkg = log[x].pkg)
        /\ \A x \in DOMAIN log :
              log[x].op \in OncePerPackage => Planned(log[x].pkg)
        /\ \A x \in 1..(Len(log) - 1) :
              PhaseRank(log[x].phase) <= PhaseRank(log[x + 1].phase)

\* package 3 is a dependency of both other members and the completed run
\* published it once, before them
C30_SharedDependencyOnce ==
    /\ mode = "release"
    /\ Completed
    /\ ~args.dry_run
    /\ workspace_members = <<1, 2, 3>>
    /\ MemberEdges = {<<1, 3>>, <<2, 3>>}
    /\ Len(pkgs) = 3
    /\ pkgs[1].id = 3
    /\ Made("publish", "publish", 3, "run")
    /\ Made("set_package_version", "post", 3, "run")

(***************************************************************************)
(* SpecManifest: cargo::set_dependency_version over bounded manifests      *)
(***************************************************************************)
\* largest number of tables of an input manifest
MaxTables == 3

\* the tables set_dependency_version looks into, in the order it does
dependency_tables == <<"dependencies", "dev-dependencies", "build-dependencies">>

\* manifest[key].as_table().contains_key(name), for the entries of one table
contains_key(entries, name) == \E j \in DOMAIN entries : entries[j].name = name

\* one round of the loop over the keys: manifest[key][name]["version"] = version
\* when the manifest has the table and the table has the entry
set_version_in(m, key, name, version) ==
    [i \in DOMAIN m |->
        IF m[i].key = key /\ contains_key(m[i].entries, name)
        THEN [m[i] EXCEPT !.entries =
                 [j \in DOMAIN m[i].entries |->
                     IF m[i].entries[j].name = name
                     THEN [m[i].entries[j] EXCEPT !.version = version]
                     ELSE m[i].entries[j]]]
        ELSE m[i]]

RECURSIVE set_dependency_version_in(_, _, _, _)
set_dependency_version_in(m, keys, name, version) ==
    IF keys = <<>> THEN m
    ELSE set_dependency_version_in(set_version_in(m, Head(keys), name, version),
                                   Tail(keys), name, version)

\* a variant that looks into the dependencies table alone
set_dependency_version_runtime_only(m, name, version) ==
    set_version_in(m, "dependencies", name, version)

\* the document is written back with to_string_in_original_order
set_dependency_version(m, name, version) ==
    set_dependency_version_in(m, dependency_tables, name, version)

\* the tables and entries of the input manifests
TableKeys == {"package", "dependencies", "dev-dependencies", "build-dependencies"}

EntryNames == {"foo", "bar"}

Entry(name) == [name |-> name, version |-> "1.0"]

EntrySeqs ==
    {<<>>} \cup {<<Entry(n)>> : n \in EntryNames}
           \cup {<<Entry(p[1]), Entry(p[2])>> :
                    p \in {q \in EntryNames \X EntryNames : q[1] # q[2]}}

Manifests ==
    UNION {{m \in [1..n -> [key : TableKeys, entries : EntrySeqs]] :
               \A i, j \in 1..n : i # j => m[i].key # m[j].key} :
           n \in 0..MaxTables}

InitManifest ==
    /\ mode = "manifest"
    /\ manifest \in Manifests
    /\ dep_name \in EntryNames
    /\ dep_version = "2.0"
    /\ written = None
    /\ IdleVerbosity
    /\ IdleSort
    /\ IdleLoad
    /\ IdleWait
    /\ observed = None
    /\ args = [dry_run |-> FALSE, no_confirm |-> FALSE]
    /\ ws_config = DefaultWsConfig
    /\ ws = [packages |-> <<>>, metas |-> <<>>, configs |-> <<>>,
             selected |-> <<>>]
    /\ pkgs = <<>>
    /\ pc = Done
    /\ tree_dirty = FALSE
    /\ status = None
    /\ log = <<>>
    /\ disk = <<>>

SetDependencyVersion ==
    /\ mode = "manifest"
    /\ written = None
    /\ written' = Some(set_dependency_version(manifest, dep_name, dep_version))
    /\ UNCHANGED <<mode, sortVars, loadVars, inputVars, runVars, waitVars,
                   manifest, dep_name, dep_version, verbosityVars>>

NextManifest == SetDependencyVersion

SpecManifest == InitManifest /\ [][NextManifest]_vars

(***************************************************************************)
(* Properties of cargo::set_dependency_version (SpecManifest).             *)
(***************************************************************************)
\* the table at position i is one of the three dependency tables
IsDependencyTable(i) ==
    manifest[i].key \in {"dependencies", "dev-dependencies", "build-dependencies"}

\* C31: the manifest written back has the same tables in the same order and
\* in each table the same entries in the same order; the requirement of an
\* entry is the new one when the entry is named `name` and sits in
\* dependencies, dev-dependencies or build-dependencies, and is the old one
\* everywhere else.
C31_OnlyNamedDependencyRewritten ==
    (mode = "manifest" /\ written # None) =>
        LET w == Get(written)
        IN  /\ Len(w) = Len(manifest)
            /\ \A i \in DOMAIN manifest :
                  /\ w[i].key = manifest[i].key
                  /\ Len(w[i].entries) = Len(manifest[i].entries)
                  /\ \A j \in DOMAIN manifest[i].entries :
                        /\ w[i].entries[j].name = manifest[i].entries[j].name
                        /\ w[i].entries[j].version =
                              IF /\ IsDependencyTable(i)
                                 /\ manifest[i].entries[j].name = dep_name
                              THEN dep_version
                              ELSE manifest[i].entries[j].version

\* a manifest whose three dependency tables all hold the dependency next to
\* another entry has been written back
C31_AllThreeTablesRewritten ==
    /\ mode = "manifest"
    /\ written # None
    /\ Len(manifest) = 3
    /\ \A i \in DOMAIN manifest :
          /\ IsDependencyTable(i)
          /\ Len(manifest[i].entries) = 2
          /\ contains_key(manifest[i].entries, dep_name)
    /\ manifest[1].key = "build-dependencies"

(***************************************************************************)
(* SpecVerbosity: Verbosity::log_level over bounded flag counts            *)
(***************************************************************************)
\* largest number of times -q or -v is passed
MaxFlags == 10

\* Verbosity::log_level; the counts are i8 and the sum stays far inside the
\* i8 range for the counts drawn here
log_level_of(v) ==
    LET verbosity == 2 - v.quiet + v.verbose
    IN  CASE verbosity <= 0 -> "Error"
          [] verbosity = 1 -> "Warn"
          [] verbosity = 2 -> "Info"
          [] verbosity = 3 -> "Debug"
          [] OTHER -> "Trace"

InitVerbosity ==
    /\ mode = "verbosity"
    /\ logging \in [quiet : 0..MaxFlags, verbose : 0..MaxFlags]
    /\ log_level = None
    /\ IdleManifest
    /\ IdleSort
    /\ IdleLoad
    /\ IdleWait
    /\ observed = None
    /\ args = [dry_run |-> FALSE, no_confirm |-> FALSE]
    /\ ws_config = DefaultWsConfig
    /\ ws = [packages |-> <<>>, metas |-> <<>>, configs |-> <<>>,
             selected |-> <<>>]
    /\ pkgs = <<>>
    /\ pc = Done
    /\ tree_dirty = FALSE
    /\ status = None
    /\ log = <<>>
    /\ disk = <<>>

LogLevel ==
    /\ mode = "verbosity"
    /\ log_level = None
    /\ log_level' = Some(log_level_of(logging))
    /\ UNCHANGED <<mode, sortVars, loadVars, inputVars, runVars, waitVars,
                   manifestVars, logging>>

NextVerbosity == LogLevel

SpecVerbosity == InitVerbosity /\ [][NextVerbosity]_vars

(***************************************************************************)
(* Properties of Verbosity::log_level (SpecVerbosity).                     *)
(***************************************************************************)
\* C32 (as the specification states it): with no -q, log_level is Info for
\* no -v, Debug for -v passed three times and Trace for -v passed four times.
C32_LevelsAsDocumented ==
    (mode = "verbosity" /\ log_level # None /\ logging.quiet = 0) =>
        /\ logging.verbose = 0 => Get(log_level) = "Info"
        /\ logging.verbose = 3 => Get(log_level) = "Debug"
        /\ logging.verbose = 4 => Get(log_level) = "Trace"

(***************************************************************************)
(* Order of the calls inside STEP 2 and STEP 6 (Spec).                     *)
(***************************************************************************)
\* the place of a call in the iteration of its phase for one package
OpRank(e) ==
    IF e.phase = "version"
    THEN CASE e.op = "set_package_version" -> 1
           [] e.op \in {"set_dependency_version", "warn"} -> 2
           [] e.op = "update_lock" -> 3
           [] e.op = "replace" -> 4
           [] e.op = "hook" -> 5
           [] OTHER -> 6
    ELSE CASE e.op \in {"set_dependency_version", "warn"} -> 1
           [] e.op = "set_package_version" -> 2
           [] e.op = "update_lock" -> 3
           [] e.op = "replace" -> 4
           [] OTHER -> 5

\* the place of the package in the processing order; the shared commit of
\* the workspace comes after every package
PlanIndex(id) ==
    IF id = WsRoot THEN Len(pkgs) + 1
    ELSE CHOOSE i \in DOMAIN pkgs : pkgs[i].id = id

\* the call is one a package makes once in its iteration
OnceInIteration(e) == e.op \notin {"set_dependency_version", "warn"}

\* C33: in the version phase the calls for one package come in the order
\* manifest version, dependents, lock refresh, text substitutions, hook,
\* commit, and in the post phase in the order dependents, manifest version,
\* lock refresh, text substitutions, commit; a commit of a package comes
\* after its lock refresh and, when it has a hook, after the hook; and once a
\* call for a later package is made no call for an earlier one follows in
\* the same phase.
C33_OrderInsidePhase ==
    mode = "release" =>
        /\ \A x \in 1..(Len(log) - 1) :
              (log[x].phase \in {"version", "post"}
                  /\ log[x + 1].phase = log[x].phase) =>
                 IF log[x + 1].pkg = log[x].pkg
                 THEN /\ OpRank(log[x]) <= OpRank(log[x + 1])
                      /\ OnceInIteration(log[x]) =>
                            OpRank(log[x]) < OpRank(log[x + 1])
                 ELSE PlanIndex(log[x].pkg) < PlanIndex(log[x + 1].pkg)
        /\ \A x \in DOMAIN log :
              (log[x].op = "commit" /\ log[x].pkg # WsRoot) =>
                 /\ x > 1
                 /\ log[x - 1].pkg = log[x].pkg
                 /\ log[x - 1].phase = log[x].phase
                 /\ log[x - 1].ok
                 /\ log[x - 1].op =
                       IF log[x].phase = "version" /\ Hooked(log[x].pkg)
                       THEN "hook"
                       ELSE IF \/ /\ log[x].phase = "version"
                                  /\ PlanOf(log[x].pkg).config
                                         .pre_release_replacements
                               \/ /\ log[x].phase = "post"
                                  /\ PlanOf(log[x].pkg).config
                                         .post_release_replacements
                       THEN "replace"
                       ELSE "update_lock"

\* a real run of two packages, the first with text substitutions, a hook and
\* a dependent whose requirement is rewritten in the post phase, has completed
C33_BothPhasesInOrder ==
    /\ mode = "release"
    /\ ~args.dry_run
    /\ status = Some(0)
    /\ Len(pkgs) = 2
    /\ Made("replace", "version", pkgs[1].id, "run")
    /\ Made("hook", "version", pkgs[1].id, "run")
    /\ Made("replace", "post", pkgs[1].id, "run")
    /\ Made("set_dependency_version", "post", pkgs[1].id, "run")
    /\ Made("commit", "post", pkgs[2].id, "run")

(***************************************************************************)
(* A dependent version conflict in STEP 2 (Spec).                          *)
(***************************************************************************)
\* the run ended in the DependencyVersionConflict of the package's STEP 2
\* iteration: every call of the iteration went well and the status is fatal
VersionConflictOn(id) ==
    /\ status = Some(FatalStatus)
    /\ log # <<>>
    /\ log[Len(log)].phase = "version"
    /\ log[Len(log)].pkg = id
    /\ log[Len(log)].ok
    /\ PlanOf(id).config.dependent_version = "Error"

\* the requirement on `name` in the manifest `d` holds for the package
RequirementsOn(d, name) ==
    [id \in Packages |->
        [k \in {j \in DOMAIN d[id].dependencies :
                   d[id].dependencies[j].name = name} |->
            d[id].dependencies[k].req]]

\* C34: when a real run ends in the dependent version conflict of package P
\* in the version phase, P's manifest carries the new version, nothing was
\* committed for P, the requirements on P in all manifests are the ones from
\* before the run, the only calls for P after the confirmation are the
\* manifest rewrite and the warnings, and without commit consolidation every
\* earlier package with a pending release has its commit.
C34_ConflictLeavesManifestRewritten ==
    (mode = "release" /\ ~args.dry_run) =>
        \A i \in DOMAIN pkgs :
            VersionConflictOn(pkgs[i].id) =>
                LET P == pkgs[i].id
                IN  /\ pc = Done
                    /\ pkgs[i].version # None
                    /\ disk[P].version = Get(pkgs[i].version)
                    /\ RequirementsOn(disk, P) = RequirementsOn(InitialDisk, P)
                    /\ \A x \in DOMAIN log :
                          /\ (log[x].pkg = P /\ PhaseRank(log[x].phase) >= 3) =>
                                /\ log[x].phase = "version"
                                /\ log[x].op \in {"set_package_version", "warn"}
                          /\ PhaseRank(log[x].phase) >= 3 => log[x].pkg # WsRoot
                          /\ PhaseRank(log[x].phase) >= 3 =>
                                PlanIndex(log[x].pkg) <= i
                    /\ ~ws_config.consolidate_commits =>
                          \A j \in 1..(i - 1) :
                              pkgs[j].version # None =>
                                  Made("commit", "version", pkgs[j].id, "run")

\* a real run committed its first package and ended in the conflict of the
\* second
C34_ConflictAfterEarlierCommit ==
    /\ mode = "release"
    /\ ~args.dry_run
    /\ Len(pkgs) = 3
    /\ VersionConflictOn(pkgs[2].id)
    /\ Made("commit", "version", pkgs[1].id, "run")
    /\ disk[pkgs[2].id].version # InitialDisk[pkgs[2].id].version

(***************************************************************************)
(* The dependents of a plan (Spec).                                        *)
(***************************************************************************)
\* the workspace members whose manifest declares a dependency on the package
MemberDependents(id) ==
    {m \in SeqToSet(workspace_members) :
        \E k \in DOMAIN ws.metas[m].dependencies :
            ws.metas[m].dependencies[k].name = id}

\* C35: the dependents of a plan with a pending release are exactly the
\* workspace members that depend on the package, selected or not and
\* released or not, each once and no other package; and the only manifests
\* whose dependency tables a run rewrites are those of workspace members.
C35_DependentsAreMembers ==
    mode = "release" =>
        /\ \A i \in DOMAIN pkgs :
              LET deps == pkgs[i].dependents
              IN  /\ \A k \in DOMAIN deps :
                        /\ deps[k].pkg \in SeqToSet(workspace_members)
                        /\ \A l \in DOMAIN deps : deps[l].pkg = deps[k].pkg => l = k
                  /\ pkgs[i].version # None =>
                        {deps[k].pkg : k \in DOMAIN deps} =
                            MemberDependents(pkgs[i].id)
        /\ \A id \in Packages :
              disk[id].dependencies # InitialDisk[id].dependencies =>
                  id \in SeqToSet(workspace_members)

\* a real run has rewritten the manifest of a workspace member that has no
\* plan, while a package outside the workspace depends on the released one
C35_UnselectedMemberRewritten ==
    /\ mode = "release"
    /\ ~args.dry_run
    /\ status = Some(0)
    /\ \E id \in SeqToSet(workspace_members) :
          /\ ~Planned(id)
          /\ disk[id].dependencies # InitialDisk[id].dependencies
    /\ \E id \in SeqToSet(ws.packages) \ SeqToSet(workspace_members) :
          \E k \in DOMAIN ws.metas[id].dependencies :
              Planned(ws.metas[id].dependencies[k].name)

(***************************************************************************)
(* The requirement both reconciliation passes work from (Spec).            *)
(***************************************************************************)
\* the plans release_workspace builds from the metadata and the request
PlansBuilt ==
    filter_plans(sort_workspace(workspace_members, resolve), ws.selected,
                 load_selected(ws, workspace_members, level_or_version))

\* the requirement the plan of `id` records for its dependent `d`
Recorded(id, d) ==
    LET deps == PlanOf(id).dependents
    IN  deps[CHOOSE k \in DOMAIN deps : deps[k].pkg = d].req

\* the version a phase reconciles the dependents of `id` against
PhaseVersion(id, phase) ==
    IF phase = "version" THEN Get(PlanOf(id).version)
    ELSE Get(PlanOf(id).post_version)

\* the package has gone through both passes under Upgrade in a real run that
\* completed
UpgradedTwice(id) ==
    /\ ~args.dry_run
    /\ status = Some(0)
    /\ PlanOf(id).config.dependent_version = "Upgrade"
    /\ PlanOf(id).version # None
    /\ PlanOf(id).post_version # None

\* C36: the plans stay as release_workspace built them; the requirement of a
\* dependent in a plan is the one of the dependent's manifest before the run;
\* every requirement written, in either pass, is set_requirement of that
\* recorded requirement and the version of the pass; and after a complete
\* real run under Upgrade the manifest of each dependent carries the
\* requirement computed for the post-release version.
C36_RecordedRequirementUsedTwice ==
    Built =>
        /\ pkgs = PlansBuilt
        /\ \A i \in DOMAIN pkgs :
              \A k \in DOMAIN pkgs[i].dependents :
                  LET dep == pkgs[i].dependents[k]
                  IN  dep.req =
                         Get(find_dep(InitialDisk[dep.pkg].dependencies,
                                      pkgs[i].id)).req
        /\ \A x \in DOMAIN log :
              log[x].op = "set_dependency_version" =>
                  LET rec == Recorded(log[x].pkg, log[x].arg[1])
                      v == PhaseVersion(log[x].pkg, log[x].phase)
                  IN  /\ Some(log[x].arg[2]) = set_requirement(rec, v)
                      /\ PlanOf(log[x].pkg).config.dependent_version = "Fix" =>
                            ~matches(rec, v)
        /\ \A i \in DOMAIN pkgs :
              UpgradedTwice(pkgs[i].id) =>
                  \A k \in DOMAIN pkgs[i].dependents :
                      LET dep == pkgs[i].dependents[k]
                          on_disk == disk[dep.pkg].dependencies
                      IN  \A j \in DOMAIN on_disk :
                              on_disk[j].name = pkgs[i].id =>
                                  Some(on_disk[j].req) =
                                      set_requirement(dep.req,
                                                      Get(pkgs[i].post_version))

\* a complete real run under Upgrade wrote the requirement of a dependent in
\* both passes
C36_UpgradedInBothPasses ==
    /\ Built
    /\ pkgs # <<>>
    /\ UpgradedTwice(pkgs[1].id)
    /\ Made("set_dependency_version", "version", pkgs[1].id, "run")
    /\ Made("set_dependency_version", "post", pkgs[1].id, "run")

(***************************************************************************)
(* sort_workspace on graphs with cycles (SpecSort).                        *)
(***************************************************************************)
\* every edge of the input graph: <<a, b>> when a depends on b
ResolveEdges ==
    {e \in Packages \X Packages : e[2] \in SeqToSet(resolve[e[1]])}

\* C37: on every dependency graph, cycles, self-edges and edges to packages
\* outside the workspace included, sort_workspace returns, and what it
\* returns holds every workspace member exactly once and nothing else.
C37_SortIsTotal ==
    mode = "sort" =>
        /\ sorted = None => ENABLED SortWorkspace
        /\ sorted # None =>
              LET s == Get(sorted)
              IN  /\ Len(s) = Cardinality(MemberSet)
                  /\ \A m \in MemberSet : Cardinality(Positions(s, m)) = 1
                  /\ \A i \in DOMAIN s : s[i] \in MemberSet

\* a graph with a self-edge, a cycle of two members and an edge to a package
\* outside the workspace has been sorted
C37_CyclicGraphSorted ==
    /\ mode = "sort"
    /\ sorted # None
    /\ <<1, 1>> \in ResolveEdges
    /\ {<<2, 3>>, <<3, 2>>} \subseteq ResolveEdges
    /\ \E m \in MemberSet : <<m, 5>> \in ResolveEdges
    /\ 5 \notin MemberSet

(***************************************************************************)
(* A run with nothing selected (Spec).                                     *)
(***************************************************************************)
\* C38: when no package is selected release_workspace returns 0 and that is
\* all it does: no plan is built, no call is made or announced to git, cargo
\* or the registry, and no manifest is touched.
C38_EmptySelectionDoesNothing ==
    (mode = "release" /\ ws.selected = <<>>) =>
        /\ pkgs = <<>>
        /\ log = <<>>
        /\ disk = InitialDisk
        /\ status \in {None, Some(0)}
        /\ pc.phase # "start" => (pc = Done /\ status = Some(0))

\* a run over a workspace with members and nothing selected has returned
C38_ReturnedWithNothingSelected ==
    /\ mode = "release"
    /\ ws.selected = <<>>
    /\ workspace_members # <<>>
    /\ status = Some(0)
    /\ pc = Done

====
